---------------------------- MODULE Spec2Model ----------------------------
(***************************************************************************)
(* Titan memory server: the memory model (src/src/model.ts), the MCP tool  *)
(* server (src/src/index.ts) and the Express server (src/build/server.js). *)
(*                                                                         *)
(* Numbers.  A float32 is modelled as a fixed-point integer in units of    *)
(* 1/One, so 1.0 is One and 0.01 is One \div 100.  A product of two        *)
(* values is divided by One once (floor).                                  *)
(*                                                                         *)
(* Tensors.  A tensor is a record [shape, data]: shape is the sequence of  *)
(* dimensions and data the row-major values, as in tfjs.  Every tensor     *)
(* operation checks shapes the way the tfjs operation of the same name     *)
(* does and yields Err(msg) where tfjs throws; an Err operand propagates,  *)
(* which models the exception leaving the enclosing function.             *)
(***************************************************************************)
EXTENDS Integers, Sequences, FiniteSets, TLC

\* ------------------------------------------------------------------ bounds
\* Largest dimension an init request supplies for inputDim/hiddenDim/outputDim.
MaxDim == 2
\* Largest head/layer count an init request supplies.
MaxCount == 2
\* Number of distinct outcomes of the random initialiser that are explored.
MaxSeed == 2

\* The value 1.0 (tf.scalar(1.0)) in fixed-point units.
One == 1000

\* ------------------------------------------------------------- arithmetic
RECURSIVE SumSeq(_)
SumSeq(s) == IF s = <<>> THEN 0 ELSE Head(s) + SumSeq(Tail(s))

RECURSIVE SizeOf(_)
\* util.sizeFromShape: the product of the dimensions (1 for a scalar).
SizeOf(shape) == IF shape = <<>> THEN 1 ELSE Head(shape) * SizeOf(Tail(shape))

FMul(u, v) == (u * v) \div One
FSub(u, v) == u - v
FAdd(u, v) == u + v

Max(a, b) == IF a >= b THEN a ELSE b
\* A variant of Min that gives twice the smaller value.
MinTwice(a, b) == IF a <= b THEN 2 * a ELSE 2 * b
Min(a, b) == IF a <= b THEN a ELSE b
Sign(g) == IF g > 0 THEN 1 ELSE IF g < 0 THEN -1 ELSE 0

\* ---------------------------------------------------------------- tensors
Err(msg) == [err |-> msg]
IsErr(t) == "err" \in DOMAIN t
Tensor(shape, data) == [shape |-> shape, data |-> data]
Rank(t) == Len(t.shape)
Scalar(v) == Tensor(<<>>, <<v>>)
NegativeDim(shape) == \E i \in 1..Len(shape) : shape[i] < 0

\* tf.zeros(shape): a negative dimension makes the typed-array allocation throw.
Zeros(shape) ==
  IF NegativeDim(shape) THEN Err("RangeError: invalid shape")
  ELSE Tensor(shape, [k \in 1..SizeOf(shape) |-> 0])

\* One entry of tf.randomNormal(shape, 0, 0.1): the outcome of the random
\* draw is an input of the model, picked by (seed, tag, k) from five values
\* between -0.1 and 0.1.
RandVal(seed, tag, k) == (((seed * 2 + tag + k * 3) % 5) - 2) * (One \div 20)

\* tf.randomNormal(shape, 0, 0.1)
RandomNormal(shape, seed, tag) ==
  IF NegativeDim(shape) THEN Err("RangeError: invalid shape")
  ELSE Tensor(shape, [k \in 1..SizeOf(shape) |-> RandVal(seed, tag, k)])

\* tf.tensor1d(values)
Tensor1d(values) == Tensor(<<Len(values)>>, values)

\* Shapes of rank <= 2 right-aligned to rank 2 for broadcasting.
Pad2(shape) ==
  IF Len(shape) = 0 THEN <<1, 1>>
  ELSE IF Len(shape) = 1 THEN <<1, shape[1]>>
  ELSE shape

BroadcastOk(sa, sb) ==
  LET pa == Pad2(sa)  pb == Pad2(sb)
  IN \A i \in 1..2 : pa[i] = pb[i] \/ pa[i] = 1 \/ pb[i] = 1

BroadcastDim(x, y) == IF x = 1 THEN y ELSE x

\* broadcast_util.assertAndGetBroadcastShape
BroadcastShape(sa, sb) ==
  LET pa == Pad2(sa)
      pb == Pad2(sb)
      full == <<BroadcastDim(pa[1], pb[1]), BroadcastDim(pa[2], pb[2])>>
      r == Max(Len(sa), Len(sb))
  IN SubSeq(full, 3 - r, 2)

\* The kernel of an elementwise binary operation on two entries.
Elementwise(op, u, v) ==
  IF op = "add" THEN FAdd(u, v)
  ELSE IF op = "sub" THEN FSub(u, v)
  ELSE FMul(u, v)

\* An elementwise binary operation with broadcasting (tf.add, tf.sub, tf.mul).
BinOp(op, a, b) ==
  IF IsErr(a) THEN a
  ELSE IF IsErr(b) THEN b
  ELSE IF ~BroadcastOk(a.shape, b.shape)
    THEN Err("Operands could not be broadcast together")
  ELSE
    LET pa == Pad2(a.shape)
        pb == Pad2(b.shape)
        rows == BroadcastDim(pa[1], pb[1])
        cols == BroadcastDim(pa[2], pb[2])
        At(t, p, k) ==
          LET i == (k - 1) \div cols
              j == (k - 1) % cols
              ti == IF p[1] = 1 THEN 0 ELSE i
              tj == IF p[2] = 1 THEN 0 ELSE j
          IN t.data[ti * p[2] + tj + 1]
    IN Tensor(BroadcastShape(a.shape, b.shape),
              [k \in 1..(rows * cols) |-> Elementwise(op, At(a, pa, k), At(b, pb, k))])

Add(a, b) == BinOp("add", a, b)
Sub(a, b) == BinOp("sub", a, b)
Mul(a, b) == BinOp("mul", a, b)

ReluV(v) == Max(v, 0)
SquareV(v) == FMul(v, v)

\* An elementwise unary operation (relu, tf.square).
MapT(op, a) ==
  IF IsErr(a) THEN a
  ELSE Tensor(a.shape,
              [k \in 1..Len(a.data) |->
                 IF op = "relu" THEN ReluV(a.data[k]) ELSE SquareV(a.data[k])])

Relu(a) == MapT("relu", a)
Square(a) == MapT("square", a)

\* tf.mean(a): the arithmetic mean of all elements, a scalar.
Mean(a) ==
  IF IsErr(a) THEN a
  ELSE IF Len(a.data) = 0 THEN Tensor(<<>>, <<"NaN">>)
  ELSE Scalar(SumSeq(a.data) \div Len(a.data))

\* tensor.reshape(shape)
Reshape(a, shape) ==
  IF IsErr(a) THEN a
  ELSE IF NegativeDim(shape) \/ SizeOf(shape) # Len(a.data)
    THEN Err("Size must match the product of shape")
  ELSE Tensor(shape, a.data)

\* tensor.transpose(): the dimensions reversed.
Transpose(a) ==
  IF IsErr(a) THEN a
  ELSE IF Rank(a) < 2 THEN a
  ELSE
    LET r == a.shape[1]
        c == a.shape[2]
    IN Tensor(<<c, r>>,
              [k \in 1..(r * c) |->
                 LET j == (k - 1) \div r
                     i == (k - 1) % r
                 IN a.data[i * c + j + 1]])

\* tf.matMul(a, b): both operands must be matrices (rank >= 2) and the inner
\* dimensions must agree.
MatMul(a, b) ==
  IF IsErr(a) THEN a
  ELSE IF IsErr(b) THEN b
  ELSE IF Rank(a) < 2 \/ Rank(b) < 2
    THEN Err("Error in matMul: inputs must have rank of at least 2")
  ELSE IF a.shape[2] # b.shape[1]
    THEN Err("Error in matMul: inner shapes must match")
  ELSE
    LET r == a.shape[1]
        n == a.shape[2]
        c == b.shape[2]
    IN Tensor(<<r, c>>,
              [k \in 1..(r * c) |->
                 LET i == (k - 1) \div c
                     j == (k - 1) % c
                 IN SumSeq([m \in 1..n |->
                              a.data[i * n + m] * b.data[(m - 1) * c + j + 1]])
                    \div One])

\* tensor.squeeze(): the dimensions of size 1 removed.
Squeeze(a) ==
  IF IsErr(a) THEN a
  ELSE Tensor(SelectSeq(a.shape, LAMBDA d : d # 1), a.data)

\* tensor.slice([begin], [size]) of a rank-1 tensor; a size of -1 means "to
\* the end".
Slice1(a, begin, size) ==
  IF IsErr(a) THEN a
  ELSE IF Rank(a) # 1 THEN Err("Error in slice: rank mismatch")
  ELSE
    LET n == IF size >= 0 THEN size ELSE a.shape[1] - begin
    IN IF size < -1 \/ n < 0 \/ begin + n > a.shape[1]
         THEN Err("Error in slice: begin + size out of range")
       ELSE Tensor(<<n>>, SubSeq(a.data, begin + 1, begin + n))

\* tf.concat([a, b], 0) of two rank-1 tensors.
Concat0(a, b) ==
  IF IsErr(a) THEN a
  ELSE IF IsErr(b) THEN b
  ELSE IF Rank(a) # Rank(b) \/ Rank(a) # 1
    THEN Err("Error in concat: ranks must match")
  ELSE Tensor(<<Len(a.data) + Len(b.data)>>, a.data \o b.data)

\* Row i (0-based) of a rank-2 tensor.
RowOf(t, i) == SubSeq(t.data, i * t.shape[2] + 1, (i + 1) * t.shape[2])

RECURSIVE ConcatRows(_, _)
ConcatRows(ts, i) ==
  IF ts = <<>> THEN <<>> ELSE RowOf(Head(ts), i) \o ConcatRows(Tail(ts), i)

RECURSIVE FlattenSeq(_)
FlattenSeq(ss) == IF ss = <<>> THEN <<>> ELSE Head(ss) \o FlattenSeq(Tail(ss))

\* tf.concat(tensors, -1) of rank-2 tensors: at least one tensor, equal row
\* counts; the columns are laid side by side.
ConcatLast(ts) ==
  IF ts = <<>> THEN Err("Pass at least one tensor to concat")
  ELSE IF \E i \in 1..Len(ts) : IsErr(ts[i])
    THEN ts[CHOOSE i \in 1..Len(ts) :
              IsErr(ts[i]) /\ \A j \in 1..(i - 1) : ~IsErr(ts[j])]
  ELSE IF \E i \in 1..Len(ts) : Rank(ts[i]) # 2 \/ ts[i].shape[1] # ts[1].shape[1]
    THEN Err("Error in concat: shapes must match")
  ELSE
    LET r == ts[1].shape[1]
        c == SumSeq([i \in 1..Len(ts) |-> ts[i].shape[2]])
    IN Tensor(<<r, c>>, FlattenSeq([i \in 1..r |-> ConcatRows(ts, i - 1)]))

\* tf.softmax over the last axis.  Row sums are exactly 1.0; a row with one
\* logit is exactly <<1.0>>, wider rows put the rounding remainder on the
\* largest logit.
Softmax(a) ==
  IF IsErr(a) THEN a
  ELSE IF Rank(a) # 2 THEN Err("Error in softmax: rank")
  ELSE
    LET c == a.shape[2]
        ArgMax(i) == CHOOSE j \in 1..c :
                       /\ \A m \in 1..c : RowOf(a, i)[j] >= RowOf(a, i)[m]
                       /\ \A m \in 1..(j - 1) : RowOf(a, i)[m] < RowOf(a, i)[j]
    IN Tensor(a.shape,
              [k \in 1..Len(a.data) |->
                 LET i == (k - 1) \div c
                     j == ((k - 1) % c) + 1
                 IN IF j = ArgMax(i) THEN One - (c - 1) * ((One \div c) \div 2)
                    ELSE (One \div c) \div 2])

\* variable.assign(newValue): the shapes must be equal.
AssignOk(v, newValue) == ~IsErr(newValue) /\ newValue.shape = v.shape


\* tensor.div(tf.scalar(d)) for a fixed-point divisor d.
DivScalar(a, d) ==
  IF IsErr(a) THEN a
  ELSE Tensor(a.shape, [k \in 1..Len(a.data) |-> (a.data[k] * One) \div d])

\* Math.sqrt(n) for a dimension n, in fixed-point units.
SqrtFixed(n) ==
  CHOOSE r \in 0..(Max(n, 1) * One) :
    r * r <= n * One * One /\ (r + 1) * (r + 1) > n * One * One

\* tensor.array() / tensor.arraySync(): the nested array of the values; a
\* tensor without elements gives [] whatever its shape.
ToArray(t) ==
  IF Len(t.data) = 0 THEN <<>>
  ELSE IF Rank(t) = 0 THEN t.data[1]
  ELSE IF Rank(t) = 1 THEN t.data
  ELSE [i \in 1..t.shape[1] |-> RowOf(t, i - 1)]

\* tf.tensor2d(values) without a shape: values must be a nested number[][];
\* undefined and a flat (or empty) array throw.
FromArray2d(present, arr) ==
  IF ~present THEN Err("tensor2d: values is undefined")
  ELSE IF arr = <<>>
    THEN Err("tensor2d() requires shape to be provided when values are flat")
  ELSE Tensor(<<Len(arr), Len(arr[1])>>, FlattenSeq(arr))

\* tf.tensor1d(values): undefined throws.
FromArray1d(present, arr) ==
  IF ~present THEN Err("tensor1d: values is undefined")
  ELSE Tensor(<<Len(arr)>>, arr)

\* ------------------------------------------------------------ the model
\* Config values that are not integers (learningRate, momentumFactor,
\* forgetGateInit, maxStepSize, tangentEpsilon) are held in units of
\* 1/CfgUnit, so that 1e-8 is 1.
CfgUnit == 100000000
DefaultInputDim == 64
DefaultHiddenDim == 32
DefaultMemoryDim == 64
DefaultLearningRate == 100000
DefaultMomentumFactor == 90000000
DefaultForgetGateInit == 1000000
DefaultMaxStepSize == 10000000
DefaultTangentEpsilon == 1
DefaultNumHeads == 4
DefaultNumLayers == 3

\* A config value in the fixed-point units of tensor values.
ToFixed(v) == v \div (CfgUnit \div One)

\* A variant of Or that always takes the default.
OrDefault(config, f, d) == d

\* JavaScript's config.f || d: the default replaces a missing field and 0.
Or(config, f, d) == IF f \in DOMAIN config /\ config[f] # 0 THEN config[f] ELSE d

\* config.useManifold || false
OrFalse(config, f) == IF f \in DOMAIN config THEN config[f] ELSE FALSE

\* The scalar fields the constructor sets (model.ts lines 60-75).
ConfigOf(config) ==
  [inputDim |-> Or(config, "inputDim", DefaultInputDim),
   hiddenDim |-> Or(config, "hiddenDim", DefaultHiddenDim),
   memoryDim |-> Or(config, "outputDim", DefaultMemoryDim),
   learningRate |-> Or(config, "learningRate", DefaultLearningRate),
   useManifold |-> OrFalse(config, "useManifold"),
   momentumFactor |-> Or(config, "momentumFactor", DefaultMomentumFactor),
   forgetGateInit |-> Or(config, "forgetGateInit", DefaultForgetGateInit),
   maxStepSize |-> Or(config, "maxStepSize", DefaultMaxStepSize),
   tangentEpsilon |-> Or(config, "tangentEpsilon", DefaultTangentEpsilon),
   numHeads |-> Or(config, "numHeads", DefaultNumHeads),
   numLayers |-> Or(config, "numLayers", DefaultNumLayers)]

\* The names of the tensor-valued and list-valued parameter groups.
TensorGroups == {"W1", "b1", "W2", "b2", "forgetGate"}
ListGroups == {"queryWeights", "keyWeights", "valueWeights",
               "attentionOutputWeights", "hierarchicalMemory"}

\* The first Err among the parameters of a model under construction, or a
\* non-Err value when every tensor was created.
FirstErr(m) ==
  IF \E g \in TensorGroups : IsErr(m[g])
    THEN m[CHOOSE g \in TensorGroups : IsErr(m[g])]
  ELSE IF \E g \in ListGroups : \E i \in 1..Len(m[g]) : IsErr(m[g][i])
    THEN LET g == CHOOSE h \in ListGroups : \E i \in 1..Len(m[h]) : IsErr(m[h][i])
         IN m[g][CHOOSE i \in 1..Len(m[g]) : IsErr(m[g][i])]
  ELSE Scalar(0)

\* new TitanMemoryModel(config): the model record, or Err when a tensor
\* creation throws.  seed picks the outcome of the random initialiser.
NewModel(config, seed) ==
  LET Checked(m) == IF IsErr(FirstErr(m)) THEN FirstErr(m) ELSE m
      Build(c, full, sq) ==
        Checked(
          [cfg |-> c,
           W1 |-> RandomNormal(<<c.hiddenDim, c.inputDim + c.memoryDim>>, seed, 1),
           b1 |-> Zeros(<<c.hiddenDim>>),
           W2 |-> RandomNormal(<<full, c.hiddenDim>>, seed, 2),
           b2 |-> Zeros(<<full>>),
           forgetGate |-> Scalar(ToFixed(c.forgetGateInit)),
           queryWeights |-> [i \in 1..Max(c.numHeads, 0) |-> RandomNormal(sq, seed, 10 + i)],
           keyWeights |-> [i \in 1..Max(c.numHeads, 0) |-> RandomNormal(sq, seed, 21 + i)],
           valueWeights |-> [i \in 1..Max(c.numHeads, 0) |-> RandomNormal(sq, seed, 32 + i)],
           attentionOutputWeights |->
             [i \in 1..Max(c.numHeads, 0) |-> RandomNormal(sq, seed, 43 + i)],
           hierarchicalMemory |->
             [i \in 1..Max(c.numLayers, 0) |-> Zeros(<<c.memoryDim>>)]])
      Configured(c) == Build(c, c.inputDim + c.memoryDim, <<c.memoryDim, c.memoryDim>>)
  IN Configured(ConfigOf(config))

\* getConfig(): memoryDim is reported as outputDim.
getConfig(m) ==
  [inputDim |-> m.cfg.inputDim,
   hiddenDim |-> m.cfg.hiddenDim,
   outputDim |-> m.cfg.memoryDim,
   learningRate |-> m.cfg.learningRate,
   useManifold |-> m.cfg.useManifold,
   momentumFactor |-> m.cfg.momentumFactor,
   forgetGateInit |-> m.cfg.forgetGateInit,
   maxStepSize |-> m.cfg.maxStepSize,
   tangentEpsilon |-> m.cfg.tangentEpsilon,
   numHeads |-> m.cfg.numHeads,
   numLayers |-> m.cfg.numLayers]

\* getWeights(): the nested arrays of all ten parameter groups.
getWeights(m) ==
  [W1 |-> ToArray(m.W1),
   b1 |-> ToArray(m.b1),
   W2 |-> ToArray(m.W2),
   b2 |-> ToArray(m.b2),
   forgetGate |-> ToArray(m.forgetGate),
   queryWeights |-> [i \in 1..Len(m.queryWeights) |-> ToArray(m.queryWeights[i])],
   keyWeights |-> [i \in 1..Len(m.keyWeights) |-> ToArray(m.keyWeights[i])],
   valueWeights |-> [i \in 1..Len(m.valueWeights) |-> ToArray(m.valueWeights[i])],
   attentionOutputWeights |->
     [i \in 1..Len(m.attentionOutputWeights) |-> ToArray(m.attentionOutputWeights[i])],
   hierarchicalMemory |->
     [i \in 1..Len(m.hierarchicalMemory) |-> ToArray(m.hierarchicalMemory[i])]]

\* One attention head of multiHeadAttention (the body of its loop).
AttentionHead(m, i, query, key, value) ==
  LET q == MatMul(query, m.queryWeights[i])
      k == MatMul(key, m.keyWeights[i])
      v == MatMul(value, m.valueWeights[i])
      scores == IF IsErr(q) THEN q
                ELSE IF IsErr(k) THEN k
                ELSE IF IsErr(v) THEN v
                ELSE Softmax(DivScalar(MatMul(q, Transpose(k)),
                                       SqrtFixed(m.cfg.memoryDim)))
  IN MatMul(scores, v)

\* A variant of multiHeadAttention that skips the attention computation and
\* hands the query back.
multiHeadAttentionSkipped(m, query, key, value) == query

\* multiHeadAttention(query, key, value): the heads concatenated along the
\* last axis and multiplied by attentionOutputWeights[0].
multiHeadAttention(m, query, key, value) ==
  LET heads == [i \in 1..Max(m.cfg.numHeads, 0) |-> AttentionHead(m, i, query, key, value)]
      concatenatedHeads == ConcatLast(heads)
  IN IF IsErr(concatenatedHeads) THEN concatenatedHeads
     ELSE MatMul(concatenatedHeads, m.attentionOutputWeights[1])

RECURSIVE HierLoop(_, _, _)
\* The hierarchical memory update loop of forward, from layer i on: each
\* layer is assigned layer + attentionOutput in turn; a throw leaves the
\* layers already assigned as they are.
HierLoop(hier, i, att) ==
  IF i > Len(hier) THEN [hier |-> hier, err |-> ""]
  ELSE
    LET updated == Add(hier[i], att)
    IN IF IsErr(updated) THEN [hier |-> hier, err |-> updated.err]
       ELSE IF ~AssignOk(hier[i], updated)
         THEN [hier |-> hier, err |-> "shape of the new value and previous value must match"]
       ELSE HierLoop([hier EXCEPT ![i] = updated], i + 1, att)

\* The intermediate tensors of forward up to the surprise (model.ts lines
\* 134-165).
ForwardCore(m, x, memory) ==
  LET FromDiff(combinedReshaped, pre1, hidden1, newMemory, predicted, diff) ==
        [row |-> combinedReshaped, pre1 |-> pre1, hidden1 |-> hidden1,
         newMemory |-> newMemory, predicted |-> predicted, diff |-> diff,
         surprise |-> Mean(Square(diff))]
      FromSlices(combinedReshaped, pre1, hidden1, newMemory, predicted) ==
        FromDiff(combinedReshaped, pre1, hidden1, newMemory, predicted,
                 Sub(predicted, x))
      FromMemory(combinedReshaped, pre1, hidden1, out, newMemory) ==
        FromSlices(combinedReshaped, pre1, hidden1, newMemory,
                   IF IsErr(newMemory) THEN newMemory
                   ELSE Slice1(out, m.cfg.memoryDim, m.cfg.inputDim))
      FromOut(combinedReshaped, pre1, hidden1, out) ==
        FromMemory(combinedReshaped, pre1, hidden1, out,
                   Slice1(out, 0, m.cfg.memoryDim))
      FromSqueezed(combinedReshaped, pre1, hidden1, out0) ==
        FromOut(combinedReshaped, pre1, hidden1,
                IF IsErr(out0) THEN out0
                ELSE IF Rank(out0) = 0 THEN Reshape(out0, <<1>>)
                ELSE out0)
      FromHidden(combinedReshaped, pre1, hidden1) ==
        FromSqueezed(combinedReshaped, pre1, hidden1,
                     Squeeze(Add(MatMul(hidden1, Transpose(m.W2)), m.b2)))
      FromPre(combinedReshaped, pre1) ==
        FromHidden(combinedReshaped, pre1, Relu(pre1))
      FromCombined(combinedReshaped) ==
        FromPre(combinedReshaped,
                Add(MatMul(combinedReshaped, Transpose(m.W1)), m.b1))
      FromGated(gatedMemory) ==
        FromCombined(Reshape(Concat0(x, gatedMemory),
                             <<1, m.cfg.inputDim + m.cfg.memoryDim>>))
  IN FromGated(Mul(memory, Sub(Scalar(One), m.forgetGate)))

\* A variant of forward that adds newMemory to the first hierarchical layer
\* before it computes the attention output.
forwardFirstLayer(m, x, memory) ==
  LET Attended(c, first, attentionOutput) ==
        IF IsErr(first)
          THEN [threw |-> TRUE, error |-> first.err, hier |-> m.hierarchicalMemory]
        ELSE IF IsErr(attentionOutput)
          THEN [threw |-> TRUE, error |-> attentionOutput.err,
                hier |-> [m.hierarchicalMemory EXCEPT ![1] = first]]
        ELSE [threw |-> FALSE, predicted |-> c.predicted, newMemory |-> c.newMemory,
              surprise |-> c.surprise,
              hier |-> [m.hierarchicalMemory EXCEPT ![1] = first]]
      Computed(c) ==
        IF IsErr(c.surprise) \/ m.hierarchicalMemory = <<>>
          THEN [threw |-> TRUE, error |-> "no layer",
                hier |-> m.hierarchicalMemory]
        ELSE Attended(c, Add(m.hierarchicalMemory[1], c.newMemory),
                      multiHeadAttention(m, c.newMemory, memory, memory))
  IN Computed(ForwardCore(m, x, memory))

\* A variant of forward that adds newMemory to the hierarchical layers
\* before it computes the attention output.
forwardLayersFirst(m, x, memory) ==
  LET Attended(c, loop, attentionOutput) ==
        IF loop.err # ""
          THEN [threw |-> TRUE, error |-> loop.err, hier |-> loop.hier]
        ELSE IF IsErr(attentionOutput)
          THEN [threw |-> TRUE, error |-> attentionOutput.err, hier |-> loop.hier]
        ELSE [threw |-> FALSE, predicted |-> c.predicted, newMemory |-> c.newMemory,
              surprise |-> c.surprise, hier |-> loop.hier]
      Computed(c) ==
        IF IsErr(c.surprise)
          THEN [threw |-> TRUE, error |-> c.surprise.err,
                hier |-> m.hierarchicalMemory]
        ELSE Attended(c, HierLoop(m.hierarchicalMemory, 1, c.newMemory),
                      multiHeadAttention(m, c.newMemory, memory, memory))
  IN Computed(ForwardCore(m, x, memory))

\* forward(x, memoryState).  The result says whether the call threw, what it
\* returned, and the hierarchical memory it leaves behind.
forward(m, x, memory) ==
  LET Updated(c, loop) ==
        IF loop.err # ""
          THEN [threw |-> TRUE, error |-> loop.err, hier |-> loop.hier]
        ELSE [threw |-> FALSE, predicted |-> c.predicted, newMemory |-> c.newMemory,
              surprise |-> c.surprise, hier |-> loop.hier]
      Attended(c, attentionOutput) ==
        IF IsErr(attentionOutput)
          THEN [threw |-> TRUE, error |-> attentionOutput.err,
                hier |-> m.hierarchicalMemory]
        ELSE Updated(c, HierLoop(m.hierarchicalMemory, 1, attentionOutput))
      Computed(c) ==
        Attended(c, IF IsErr(c.surprise) THEN c.surprise
                    ELSE multiHeadAttention(m, c.newMemory, memory, memory))
  IN Computed(ForwardCore(m, x, memory))


\* tensor.sum(): the sum of all elements, a scalar.
Sum(a) == IF IsErr(a) THEN a ELSE Scalar(SumSeq(a.data))

RECURSIVE SqrtIter(_, _)
\* Newton's iteration for the integer square root, from an estimate r that
\* is not below it.
SqrtIter(n, r) ==
  IF (r + n \div r) \div 2 >= r THEN r ELSE SqrtIter(n, (r + n \div r) \div 2)

\* The largest integer whose square is at most n.
IntSqrt(n) == IF n <= 0 THEN 0 ELSE SqrtIter(n, n)

\* A variant of Norm that adds up the magnitudes of the elements.
NormOfMagnitudes(a) ==
  IF IsErr(a) THEN a
  ELSE Scalar(SumSeq([k \in 1..Len(a.data) |->
                        IF a.data[k] < 0 THEN 0 - a.data[k] ELSE a.data[k]]))

\* tensor.norm(): the Euclidean norm of all elements, a scalar (rounded
\* down to the fixed-point unit).
Norm(a) ==
  IF IsErr(a) THEN a
  ELSE Scalar(IntSqrt(SumSeq([k \in 1..Len(a.data) |-> a.data[k] * a.data[k]])))

\* tf.cos and tf.sin of a scalar step s, by their series up to the fifth
\* power (steps are at most maxStepSize).
Cos(s) ==
  One - FMul(s, s) \div 2 + FMul(FMul(s, s), FMul(s, s)) \div 24
Sin(s) ==
  s - FMul(FMul(s, s), s) \div 6 + FMul(FMul(FMul(s, s), FMul(s, s)), s) \div 120

\* newParam.div(newParamNorm.add(tf.scalar(1e-12))): 1e-12 is below the
\* fixed-point unit and only decides the division of the zero vector,
\* which gives the zero vector.
DivNorm(a, n) ==
  IF IsErr(a) THEN a
  ELSE IF n = 0 THEN Tensor(a.shape, [k \in 1..Len(a.data) |-> 0])
  ELSE DivScalar(a, n)

\* A variant of Negligible that compares with the default tangentEpsilon.
NegligibleByDefault(m, tNormVal) ==
  tNormVal < (DefaultTangentEpsilon + (CfgUnit \div One) - 1) \div (CfgUnit \div One)

\* tNormVal < this.tangentEpsilon: tNormVal is in fixed-point units and the
\* config value in units of 1/CfgUnit, so the config value is rounded up
\* to the next fixed-point unit.
Negligible(m, tNormVal) ==
  tNormVal < (m.cfg.tangentEpsilon + (CfgUnit \div One) - 1) \div (CfgUnit \div One)

\* A variant of manifoldStep that takes the geodesic step whatever
\* useManifold says.
manifoldStepOnSphere(m, base, velocity) ==
  LET Stepped(newParam) == DivNorm(newParam, Norm(newParam).data[1])
      Moved(tangent, tNormVal, stepSize) ==
        Stepped(Add(Mul(base, Scalar(Cos(stepSize))),
                    Mul(DivScalar(tangent, tNormVal), Scalar(Sin(stepSize)))))
      Measured(tangent, tNormVal) ==
        IF Negligible(m, tNormVal) THEN base
        ELSE Moved(tangent, tNormVal, Min(tNormVal, ToFixed(m.cfg.maxStepSize)))
      Projected(tangent) ==
        IF IsErr(tangent) THEN tangent
        ELSE Measured(tangent, Norm(tangent).data[1])
  IN Projected(Sub(velocity, Mul(base, Sum(Mul(base, velocity)))))

\* manifoldStep(base, velocity): base + velocity, or with useManifold the
\* geodesic step on the unit sphere (model.ts lines 194-230).
manifoldStep(m, base, velocity) ==
  LET Stepped(newParam) == DivNorm(newParam, Norm(newParam).data[1])
      Moved(tangent, tNormVal, stepSize) ==
        Stepped(Add(Mul(base, Scalar(Cos(stepSize))),
                    Mul(DivScalar(tangent, tNormVal), Scalar(Sin(stepSize)))))
      Measured(tangent, tNormVal) ==
        IF Negligible(m, tNormVal) THEN base
        ELSE Moved(tangent, tNormVal, Min(tNormVal, ToFixed(m.cfg.maxStepSize)))
      Projected(tangent) ==
        IF IsErr(tangent) THEN tangent
        ELSE Measured(tangent, Norm(tangent).data[1])
  IN IF ~m.cfg.useManifold THEN Add(base, velocity)
     ELSE Projected(Sub(velocity, Mul(base, Sum(Mul(base, velocity)))))

\* One Adam update of a variable with gradient g (one entry per element).
\* Adam divides the gradient by its running magnitude, so an element moves
\* by about learningRate against the sign of its gradient and stays put
\* where the gradient is 0; the moment estimates are not modelled.
AdamStep(t, g, lr) ==
  Tensor(t.shape, [k \in 1..Len(t.data) |-> t.data[k] - lr * Sign(g[k])])

\* The gradients of trainStep's loss, mean((predicted - x_next)^2) +
\* 0.01 * surprise, with respect to W1, b1, W2, b2, forgetGate and the memory
\* input, by the chain rule through ForwardCore.  Only their signs are used,
\* so each is kept as the exact integer numerator (no rounding).
LossGrads(m, c, diffN, memory) ==
  LET P == Len(c.predicted.data)
      nN == Len(diffN.data)
      nS == Len(c.diff.data)
      Part(d, j) == IF Len(d.data) = P THEN d.data[j] ELSE SumSeq(d.data)
      gPred == [j \in 1..P |-> 100 * Part(diffN, j) * nS + Part(c.diff, j) * nN]
      full == Len(m.b2.data)
      H == Len(m.b1.data)
      C == Len(c.row.data)
      md == m.cfg.memoryDim
      gOut == [o \in 1..full |-> IF o <= md THEN 0 ELSE gPred[o - md]]
      h == c.hidden1.data
      gh == [k \in 1..H |->
               SumSeq([o \in 1..full |-> gOut[o] * m.W2.data[(o - 1) * H + k]])]
      gpre == [k \in 1..H |-> IF c.pre1.data[k] > 0 THEN gh[k] ELSE 0]
      grow == [cc \in 1..C |->
                 SumSeq([k \in 1..H |-> gpre[k] * m.W1.data[(k - 1) * C + cc]])]
      ggated == [j \in 1..Len(memory.data) |-> grow[m.cfg.inputDim + j]]
  IN [W1 |-> [k \in 1..(H * C) |->
                gpre[((k - 1) \div C) + 1] * c.row.data[((k - 1) % C) + 1]],
      b1 |-> gpre,
      W2 |-> [k \in 1..(full * H) |->
                gOut[((k - 1) \div H) + 1] * h[((k - 1) % H) + 1]],
      b2 |-> gOut,
      forgetGate |->
        <<0 - SumSeq([j \in 1..Len(memory.data) |-> ggated[j] * memory.data[j]])>>,
      memory |-> [j \in 1..Len(memory.data) |->
                    ggated[j] * (One - m.forgetGate.data[1])]]

\* trainStep(x_t, x_next, memoryState).  optimizer.minimize runs the loss
\* closure (one forward call, then the loss) and applies one update to
\* every registered trainable variable the loss depends on: W1, b1, W2, b2,
\* forgetGate and, when the caller passes a tf.Variable as memoryState
\* (memIsVar), that variable too.  The result says whether the call threw,
\* the cost, and the model and memory tensor the call leaves behind.
trainStep(m, x_t, x_next, memory, memIsVar) ==
  LET lr == ToFixed(m.cfg.learningRate)
      Applied(f, afterForward, diff, g) ==
        [threw |-> FALSE,
         cost |-> Add(Mean(Square(diff)), Mul(Scalar(One \div 100), f.surprise)),
         model |-> [afterForward EXCEPT
                      !.W1 = AdamStep(m.W1, g.W1, lr),
                      !.b1 = AdamStep(m.b1, g.b1, lr),
                      !.W2 = AdamStep(m.W2, g.W2, lr),
                      !.b2 = AdamStep(m.b2, g.b2, lr),
                      !.forgetGate = AdamStep(m.forgetGate, g.forgetGate, lr)],
         memory |-> IF memIsVar THEN AdamStep(memory, g.memory, lr) ELSE memory]
      Loss(f, afterForward, diff) ==
        IF IsErr(diff)
          THEN [threw |-> TRUE, error |-> diff.err, model |-> afterForward,
                memory |-> memory]
        ELSE Applied(f, afterForward, diff,
                     LossGrads(m, ForwardCore(m, x_t, memory), diff, memory))
      Minimized(f, afterForward) ==
        IF f.threw
          THEN [threw |-> TRUE, error |-> f.error, model |-> afterForward,
                memory |-> memory]
        ELSE Loss(f, afterForward, Sub(f.predicted, x_next))
      Forwarded(f) == Minimized(f, [m EXCEPT !.hierarchicalMemory = f.hier])
  IN Forwarded(forward(m, x_t, memory))

\* The record saveModel writes: JSON.stringify of the nested arrays of all
\* ten parameter groups (model.ts lines 268-281).
saveModel(m) == getWeights(m)

\* A variant of LoadSlots that leaves W2 out.
LoadSlotsWithoutW2(m) ==
  <<<<"W1", 0>>, <<"b1", 0>>, <<"b2", 0>>, <<"forgetGate", 0>>>>
  \o [i \in 1..Len(m.queryWeights) |-> <<"queryWeights", i>>]
  \o [i \in 1..Len(m.keyWeights) |-> <<"keyWeights", i>>]
  \o [i \in 1..Len(m.valueWeights) |-> <<"valueWeights", i>>]
  \o [i \in 1..Len(m.attentionOutputWeights) |-> <<"attentionOutputWeights", i>>]
  \o [i \in 1..Len(m.hierarchicalMemory) |-> <<"hierarchicalMemory", i>>]

\* The assignments of loadModel, in order: a group name and, for a list
\* group, the index within the model's list (forEach runs over the model's
\* variables, not over the record's entries).
LoadSlots(m) ==
  <<<<"W1", 0>>, <<"b1", 0>>, <<"W2", 0>>, <<"b2", 0>>, <<"forgetGate", 0>>>>
  \o [i \in 1..Len(m.queryWeights) |-> <<"queryWeights", i>>]
  \o [i \in 1..Len(m.keyWeights) |-> <<"keyWeights", i>>]
  \o [i \in 1..Len(m.valueWeights) |-> <<"valueWeights", i>>]
  \o [i \in 1..Len(m.attentionOutputWeights) |-> <<"attentionOutputWeights", i>>]
  \o [i \in 1..Len(m.hierarchicalMemory) |-> <<"hierarchicalMemory", i>>]

\* The tensor loadModel builds for one slot from the parsed record.
LoadedTensor(weights, slot) ==
  LET g == slot[1]
      i == slot[2]
  IN IF g \in {"W1", "W2"} THEN FromArray2d(TRUE, weights[g])
     ELSE IF g \in {"b1", "b2"} THEN FromArray1d(TRUE, weights[g])
     ELSE IF g = "forgetGate" THEN Scalar(weights[g])
     ELSE IF g = "hierarchicalMemory"
       THEN FromArray1d(i <= Len(weights[g]),
                        IF i <= Len(weights[g]) THEN weights[g][i] ELSE <<>>)
     ELSE FromArray2d(i <= Len(weights[g]),
                      IF i <= Len(weights[g]) THEN weights[g][i] ELSE <<>>)

RECURSIVE LoadLoop(_, _, _)
\* The assignments of loadModel from slot k on: each variable is assigned in
\* turn; a throw leaves the variables already assigned overwritten.
LoadLoop(m, weights, k) ==
  IF k > Len(LoadSlots(m)) THEN [threw |-> FALSE, model |-> m]
  ELSE
    LET Assign(slot, t, old) ==
          IF IsErr(t) THEN [threw |-> TRUE, error |-> t.err, model |-> m]
          ELSE IF ~AssignOk(old, t)
            THEN [threw |-> TRUE, model |-> m,
                  error |-> "shape of the new value and previous value must match"]
          ELSE LoadLoop(IF slot[2] = 0 THEN [m EXCEPT ![slot[1]] = t]
                        ELSE [m EXCEPT ![slot[1]][slot[2]] = t],
                        weights, k + 1)
        At(slot) ==
          Assign(slot, LoadedTensor(weights, slot),
                 IF slot[2] = 0 THEN m[slot[1]] ELSE m[slot[1]][slot[2]])
    IN At(LoadSlots(m)[k])

\* loadModel on the parsed record of an existing file (model.ts lines
\* 288-297).
loadModel(m, weights) == LoadLoop(m, weights, 1)


\* --------------------------------------------------------- the servers
(***************************************************************************)
(* One server process: TitanMemoryServer (index.ts, MCP tools) when        *)
(* transport = "mcp", TitanExpressServer (server.js, HTTP routes) when     *)
(* transport = "http".  Both hold one model and one memory variable.       *)
(*   model      this.model: NoModel (null) or a model record               *)
(*   memoryVec  this.memoryVec: NoVar (null) or the tf.Variable, a tensor  *)
(*              with a disposed flag                                       *)
(*   files      the file system: file name -> NoFile or the saved record   *)
(*   saving     the saveModel calls in progress: each has its path, the    *)
(*              parameter groups it has read so far and, once init has     *)
(*              replaced this.model, the model object it still reads       *)
(*   req, resp  the last request, or direct call on the model as the unit  *)
(*              tests make them, and the response or result it got         *)
(***************************************************************************)
VARIABLES transport, model, memoryVec, files, saving, req, resp

vars == <<transport, model, memoryVec, files, saving, req, resp>>

NoModel == [none |-> TRUE]
NoVar == [none |-> TRUE]
NoFile == [none |-> TRUE]
HasModel == "cfg" \in DOMAIN model
HasVar == "data" \in DOMAIN memoryVec

FileNames == {"weights"}
\* A request path: a file name, with or without the file:// prefix.
Paths == [scheme : BOOLEAN, name : FileNames]
\* path.replace('file://', '')
PathFile(p) == p.name

\* The init requests explored: the base config with one field changed to
\* another dimension or count, to -1, to 0, or left out.  An outputDim of
\* 0 or left out (64 x 64 attention matrices) and a negative outputDim are
\* not explored.
BaseConfig ==
  [inputDim |-> MaxDim, hiddenDim |-> MaxDim, outputDim |-> MaxDim,
   numHeads |-> 1, numLayers |-> 1]
Without(config, f) == [g \in (DOMAIN config) \ {f} |-> config[g]]
InitRequests ==
  {[BaseConfig EXCEPT !.inputDim = v] : v \in {-1} \cup 1..MaxDim}
  \cup {[BaseConfig EXCEPT !.hiddenDim = v] : v \in {-1} \cup 1..MaxDim}
  \cup {[BaseConfig EXCEPT !.outputDim = v] : v \in 1..MaxDim}
  \cup {[BaseConfig EXCEPT !.numHeads = v] : v \in {-1, 0} \cup 1..MaxCount}
  \cup {[BaseConfig EXCEPT !.numLayers = v] : v \in {-1, 0} \cup 1..MaxCount}
  \cup {Without(BaseConfig, "numHeads"), Without(BaseConfig, "numLayers")}
\* The init requests explored together with every other tool: the base
\* config, another memory dimension, a negative head count and a negative
\* hidden dimension.
SessionRequests ==
  {BaseConfig, [BaseConfig EXCEPT !.outputDim = 1],
   [BaseConfig EXCEPT !.numHeads = -1], [BaseConfig EXCEPT !.hiddenDim = -1]}
Seeds == 1..MaxSeed

\* The request vectors explored: one of each length from 1 to MaxDim + 1,
\* <<1.0, 0, ..., 0>>.
Vec(n) == [k \in 1..n |-> IF k = 1 THEN One ELSE 0]
Vectors == {Vec(n) : n \in 1..(MaxDim + 1)}
\* The train_step requests explored: x_next like x_t, or x_t of the base
\* config's length with any x_next.
TrainPairs ==
  {<<v, v>> : v \in Vectors} \cup {<<Vec(MaxDim), w>> : w \in Vectors}

AsTensor(v) == Tensor(v.shape, v.data)
\* A variant of Variable that keeps the memory variable the session
\* already has.
VariableKept(t) ==
  IF HasVar THEN [memoryVec EXCEPT !.disposed = FALSE]
  ELSE [shape |-> t.shape, data |-> t.data, disposed |-> FALSE]

\* tf.variable(t)
Variable(t) == [shape |-> t.shape, data |-> t.data, disposed |-> FALSE]

\* What reading a disposed variable does depends on whether its buffer is
\* still referenced: the read throws or sees the data.
UseOutcomes ==
  IF HasVar /\ memoryVec.disposed THEN {"throws", "reads"} ELSE {"live"}

\* Responses.  An MCP response is a content payload or an error with a
\* code; an HTTP response has a status and a JSON body.
Okay(tool, body) ==
  [tool |-> tool, ok |-> TRUE, status |-> IF transport = "http" THEN 200 ELSE 0,
   code |-> "", error |-> "", details |-> "", body |-> body]
\* The name each HTTP route gives a caught exception.
RouteError(tool) ==
  CASE tool = "init_model" -> "Failed to initialize model"
    [] tool = "train_step" -> "Training step failed"
    [] tool = "forward_pass" -> "Forward pass failed"
    [] tool = "save_model" -> "Failed to save model"
    [] tool = "load_model" -> "Failed to load model"
    [] OTHER -> ""
\* A guard of the handler refused the request (thrown and caught in
\* index.ts, a 400 in server.js).
Refused(tool, msg) ==
  IF transport = "http"
    THEN [tool |-> tool, ok |-> FALSE, status |-> 400, code |-> "",
          error |-> msg, details |-> "", body |-> <<>>]
  ELSE [tool |-> tool, ok |-> FALSE, status |-> 0, code |-> "InternalError",
        error |-> msg, details |-> "", body |-> <<>>]
\* An exception reached the handler's catch block.
Caught(tool, msg) ==
  IF transport = "http"
    THEN [tool |-> tool, ok |-> FALSE, status |-> 500, code |-> "",
          error |-> RouteError(tool), details |-> msg, body |-> <<>>]
  ELSE [tool |-> tool, ok |-> FALSE, status |-> 0, code |-> "InternalError",
        error |-> msg, details |-> "", body |-> <<>>]

NotInitialized == "Model not initialized"

\* The message of the error fs.readFile rejects with for a missing file.
NoSuchFile == "ENOENT: no such file or directory"

\* model.forward on the memory variable.
forwardVar(m, x, mem, use) ==
  IF use = "throws"
    THEN [threw |-> TRUE, error |-> "Tensor is disposed",
          hier |-> m.hierarchicalMemory]
  ELSE forward(m, x, AsTensor(mem))

\* model.trainStep on the memory variable; a disposed variable is no longer
\* registered, so the optimizer does not update it.
trainStepVar(m, x_t, x_next, mem, use) ==
  IF use = "throws"
    THEN [threw |-> TRUE, error |-> "Tensor is disposed", model |-> m,
          memory |-> AsTensor(mem)]
  ELSE trainStep(m, x_t, x_next, AsTensor(mem), ~mem.disposed)

\* this.memoryVec.assign(tf.tensor(newMemory.dataSync())): the new value is
\* the flat array of newMemory.
AssignMemory(mem, newMemory) ==
  LET t == Tensor(<<Len(newMemory.data)>>, newMemory.data)
  IN IF AssignOk(mem, t) THEN [mem EXCEPT !.data = t.data]
     ELSE Err("shape of the new value and previous value must match")

\* The parameter groups in the order saveModel reads them.
SaveGroups ==
  <<"W1", "b1", "W2", "b2", "forgetGate", "queryWeights", "keyWeights",
    "valueWeights", "attentionOutputWeights", "hierarchicalMemory">>

\* The model object a saveModel call in progress reads: this.model as long
\* as init has not replaced it, the object it was called on afterwards.
Source(s) == IF s.detached THEN s.own ELSE model

\* A saveModel call in progress once this.model is replaced.
Detached(s) ==
  IF s.detached THEN s ELSE [s EXCEPT !.detached = TRUE, !.own = model]

Init ==
  /\ transport \in {"mcp", "http"}
  /\ model = NoModel
  /\ memoryVec = NoVar
  /\ files = [n \in FileNames |-> NoFile]
  /\ saving = {}
  /\ req = [tool |-> "none"]
  /\ resp = [tool |-> "none"]

\* init_model / POST /init
InitModel(config, seed) ==
  LET Install(m, z) ==
        IF IsErr(m)
          THEN /\ resp' = Caught("init_model", m.err)
               /\ UNCHANGED <<model, memoryVec, saving>>
        ELSE IF IsErr(z)
          THEN /\ resp' = Caught("init_model", z.err)
               /\ model' = m
               /\ saving' = {Detached(s) : s \in saving}
               /\ memoryVec' = IF HasVar THEN [memoryVec EXCEPT !.disposed = TRUE]
                               ELSE memoryVec
        ELSE /\ resp' = Okay("init_model",
                             [message |-> "Model initialized", config |-> getConfig(m)])
             /\ model' = m
             /\ saving' = {Detached(s) : s \in saving}
             /\ memoryVec' = Variable(z)
      Constructed(m) ==
        Install(m, IF IsErr(m) THEN m
                   ELSE Zeros(<<IF getConfig(m).outputDim # 0 THEN getConfig(m).outputDim
                                ELSE DefaultMemoryDim>>))
  IN /\ req' = [tool |-> "init_model", config |-> config, seed |-> seed]
     /\ Constructed(NewModel(config, seed))
     /\ UNCHANGED <<transport, files>>

\* forward_pass / POST /forward, args.x present
ForwardPass(x, use) ==
  /\ req' = [tool |-> "forward_pass", x |-> x]
  /\ IF ~HasModel \/ ~HasVar
       THEN /\ resp' = Refused("forward_pass", NotInitialized)
            /\ UNCHANGED <<model, memoryVec>>
     ELSE
       LET Assigned(f, assigned) ==
             IF IsErr(assigned)
               THEN /\ resp' = Caught("forward_pass", assigned.err)
                    /\ UNCHANGED memoryVec
             ELSE /\ resp' = Okay("forward_pass",
                                  [predicted |-> f.predicted.data,
                                   memory |-> f.newMemory.data,
                                   surprise |-> f.surprise.data[1]])
                  /\ memoryVec' = [assigned EXCEPT !.disposed = TRUE]
           Forwarded(f) ==
             /\ model' = [model EXCEPT !.hierarchicalMemory = f.hier]
             /\ IF f.threw
                  THEN /\ resp' = Caught("forward_pass", f.error)
                       /\ UNCHANGED memoryVec
                ELSE Assigned(f, AssignMemory(memoryVec, f.newMemory))
       IN Forwarded(forwardVar(model, Tensor1d(x), memoryVec, use))
  /\ UNCHANGED <<transport, saving, files>>

\* The body of train_step / POST /trainStep after the guards, also one
\* iteration of train_sequence: trainStep, then forward on the same
\* wrapped tensors, then the memory assignment and the cleanup that
\* disposes the wrapped memory variable.  Gives the model and memory
\* variable left behind and either an error or the values reported.
TrainOnce(m, mem, x_t, x_next, use) ==
  LET Assigned(t, f, after, mem1, assigned) ==
        IF IsErr(assigned)
          THEN [threw |-> TRUE, error |-> assigned.err, model |-> after, mem |-> mem1]
        ELSE [threw |-> FALSE, model |-> after,
              mem |-> [assigned EXCEPT !.disposed = TRUE],
              cost |-> t.cost.data[1], predicted |-> f.predicted.data,
              surprise |-> f.surprise.data[1]]
      Forwarded(t, f, after, mem1) ==
        IF f.threw
          THEN [threw |-> TRUE, error |-> f.error, model |-> after, mem |-> mem1]
        ELSE Assigned(t, f, after, mem1, AssignMemory(mem1, f.newMemory))
      Again(t, f, mem1) ==
        Forwarded(t, f, [t.model EXCEPT !.hierarchicalMemory = f.hier], mem1)
      Updated(t, mem1) == Again(t, forwardVar(t.model, x_t, mem1, use), mem1)
      Trained(t) ==
        IF t.threw
          THEN [threw |-> TRUE, error |-> t.error, model |-> t.model, mem |-> mem]
        ELSE Updated(t, [mem EXCEPT !.data = t.memory.data])
  IN Trained(trainStepVar(m, x_t, x_next, mem, use))

\* train_step / POST /trainStep, args.x_t and args.x_next present
TrainStep(x_t, x_next, use) ==
  /\ req' = [tool |-> "train_step", x_t |-> x_t, x_next |-> x_next]
  /\ IF ~HasModel \/ ~HasVar
       THEN /\ resp' = Refused("train_step", NotInitialized)
            /\ UNCHANGED <<model, memoryVec>>
     ELSE
       LET Respond(r) ==
             /\ model' = r.model
             /\ memoryVec' = r.mem
             /\ resp' = IF r.threw THEN Caught("train_step", r.error)
                        ELSE Okay("train_step",
                                  [cost |-> r.cost, predicted |-> r.predicted,
                                   surprise |-> r.surprise])
       IN Respond(TrainOnce(model, memoryVec, Tensor1d(x_t), Tensor1d(x_next), use))
  /\ UNCHANGED <<transport, saving, files>>

\* train_step or forward_pass without its vector arguments
MissingVector(tool) ==
  /\ req' = [tool |-> tool]
  /\ resp' = IF ~HasModel \/ ~HasVar THEN Refused(tool, NotInitialized)
             ELSE IF tool = "train_step" THEN Refused(tool, "Missing x_t / x_next")
             ELSE Refused(tool, "Missing input vector")
  /\ UNCHANGED <<transport, saving, model, memoryVec, files>>

\* save_model / POST /save
SaveModel(p) ==
  /\ req' = [tool |-> "save_model", path |-> p]
  /\ IF ~HasModel
       THEN /\ resp' = Refused("save_model", NotInitialized)
            /\ UNCHANGED files
     ELSE /\ files' = [files EXCEPT ![PathFile(p)] = saveModel(model)]
          /\ resp' = Okay("save_model", [message |-> "Model saved"])
  /\ UNCHANGED <<transport, saving, model, memoryVec>>

\* A variant of LoadModel that takes a missing file for an empty record.
LoadModelMissingAsEmpty(p) ==
  /\ req' = [tool |-> "load_model", path |-> p]
  /\ IF ~HasModel
       THEN /\ resp' = Refused("load_model", NotInitialized)
            /\ UNCHANGED model
     ELSE IF files[PathFile(p)] = NoFile
       THEN /\ resp' = Okay("load_model", [message |-> "Model loaded"])
            /\ UNCHANGED model
     ELSE
       LET Respond(r) ==
             /\ model' = r.model
             /\ resp' = IF r.threw THEN Caught("load_model", r.error)
                        ELSE Okay("load_model", [message |-> "Model loaded"])
       IN Respond(loadModel(model, files[PathFile(p)]))
  /\ UNCHANGED <<transport, saving, memoryVec, files>>

\* load_model / POST /load
LoadModel(p) ==
  /\ req' = [tool |-> "load_model", path |-> p]
  /\ IF ~HasModel
       THEN /\ resp' = Refused("load_model", NotInitialized)
            /\ UNCHANGED model
     ELSE IF files[PathFile(p)] = NoFile
       THEN /\ resp' = Caught("load_model", NoSuchFile)
            /\ UNCHANGED model
     ELSE
       LET Respond(r) ==
             /\ model' = r.model
             /\ resp' = IF r.threw THEN Caught("load_model", r.error)
                        ELSE Okay("load_model", [message |-> "Model loaded"])
       IN Respond(loadModel(model, files[PathFile(p)]))
  /\ UNCHANGED <<transport, saving, memoryVec, files>>

\* save_model or load_model without a path
MissingPath(tool) ==
  /\ req' = [tool |-> tool]
  /\ resp' = IF ~HasModel THEN Refused(tool, NotInitialized)
             ELSE Refused(tool, "Missing path")
  /\ UNCHANGED <<transport, saving, model, memoryVec, files>>

\* get_status / GET /status
GetStatus ==
  /\ req' = [tool |-> "get_status"]
  /\ resp' = IF HasModel THEN Okay("get_status", getConfig(model))
             ELSE Okay("get_status",
                       [status |-> IF transport = "http" THEN "No model"
                                   ELSE "No model initialized"])
  /\ UNCHANGED <<transport, saving, model, memoryVec, files>>

\* The sequences explored by train_sequence: empty, one or two vectors of
\* the base config's length, one longer vector.
Sequences == {<<>>, <<Vec(MaxDim)>>, <<Vec(MaxDim), Vec(MaxDim)>>, <<Vec(MaxDim + 1)>>}

\* The x_t of one train_sequence iteration: a [1, inputDim] buffer filled
\* from the sequence element (writes past the end are dropped), squeezed.
BufferRow(m, v) ==
  LET n == IF getConfig(m).inputDim # 0 THEN getConfig(m).inputDim
           ELSE DefaultInputDim
  IN IF n < 0 THEN Err("RangeError: Invalid typed array length")
     ELSE Squeeze(Tensor(<<1, n>>, [k \in 1..n |-> IF k <= Len(v) THEN v[k] ELSE 0]))

\* The loop of train_sequence from iteration t on.  use is what reading
\* the memory variable does in this iteration, reuse what it does once an
\* earlier iteration's cleanup has disposed it.
RECURSIVE SequenceLoop(_, _, _, _, _, _, _)
SequenceLoop(m, mem, sequence, t, use, reuse, metrics) ==
  IF t > Len(sequence)
    THEN [threw |-> FALSE, model |-> m, mem |-> mem, metrics |-> metrics]
  ELSE
    LET Trained(r) ==
          IF r.threw THEN r
          ELSE SequenceLoop(r.model, r.mem, sequence, t + 1, reuse, reuse,
                            Append(metrics, [step |-> t - 1, cost |-> r.cost,
                                             surprise |-> r.surprise,
                                             predicted |-> r.predicted]))
        Step(x_t) ==
          IF IsErr(x_t)
            THEN [threw |-> TRUE, error |-> x_t.err, model |-> m, mem |-> mem]
          ELSE Trained(TrainOnce(m, mem, x_t,
                                 IF t < Len(sequence) THEN Tensor1d(sequence[t + 1])
                                 ELSE x_t,
                                 use))
    IN Step(BufferRow(m, sequence[t]))

\* train_sequence (MCP only), args.sequence an array
TrainSequence(sequence, use, reuse) ==
  /\ transport = "mcp"
  /\ req' = [tool |-> "train_sequence", sequence |-> sequence]
  /\ IF ~HasModel \/ ~HasVar
       THEN /\ resp' = Refused("train_sequence", NotInitialized)
            /\ UNCHANGED <<model, memoryVec>>
     ELSE
       LET Respond(r) ==
             /\ model' = r.model
             /\ memoryVec' = r.mem
             /\ resp' =
                  IF r.threw THEN Caught("train_sequence", r.error)
                  ELSE IF r.metrics = <<>>
                    THEN Caught("train_sequence", "Pass at least one tensor to tf.stack")
                  ELSE Okay("train_sequence",
                            [shape |-> <<Len(r.metrics), Len(r.metrics[1].predicted)>>,
                             output |-> FlattenSeq([k \in 1..Len(r.metrics) |->
                                                      r.metrics[k].predicted]),
                             metrics |-> [k \in 1..Len(r.metrics) |->
                                            [step |-> r.metrics[k].step,
                                             cost |-> r.metrics[k].cost,
                                             surprise |-> r.metrics[k].surprise]]])
       IN Respond(SequenceLoop(model, memoryVec, sequence, 1, use, reuse, <<>>))
  /\ UNCHANGED <<transport, saving, files>>

\* train_sequence without a sequence
MissingSequence ==
  /\ transport = "mcp"
  /\ req' = [tool |-> "train_sequence"]
  /\ resp' = IF ~HasModel \/ ~HasVar
               THEN Refused("train_sequence", NotInitialized)
             ELSE Refused("train_sequence", "Invalid sequence format")
  /\ UNCHANGED <<transport, saving, model, memoryVec, files>>

\* A variant of StoreMemoryState that looks for the key before it looks
\* for the model.
StoreMemoryStateKeyFirst(hasKey) ==
  /\ transport = "mcp"
  /\ req' = [tool |-> "store_memory_state", key |-> hasKey]
  /\ resp' = IF ~hasKey THEN Refused("store_memory_state", "Missing key")
             ELSE IF ~HasModel \/ ~HasVar
               THEN Refused("store_memory_state", NotInitialized)
             ELSE IF memoryVec.disposed
               THEN Caught("store_memory_state", "Tensor is disposed")
             ELSE Okay("store_memory_state", [message |-> "Memory state stored"])
  /\ UNCHANGED <<transport, saving, model, memoryVec, files>>

\* store_memory_state (MCP only): reads the memory variable, stores nothing
StoreMemoryState(hasKey) ==
  /\ transport = "mcp"
  /\ req' = [tool |-> "store_memory_state", key |-> hasKey]
  /\ resp' = IF ~HasModel \/ ~HasVar
               THEN Refused("store_memory_state", NotInitialized)
             ELSE IF ~hasKey THEN Refused("store_memory_state", "Missing key")
             ELSE IF memoryVec.disposed
               THEN Caught("store_memory_state", "Tensor is disposed")
             ELSE Okay("store_memory_state", [message |-> "Memory state stored"])
  /\ UNCHANGED <<transport, saving, model, memoryVec, files>>

\* retrieve_memory_state (MCP only): assigns the empty array to the memory
\* variable
RetrieveMemoryState(hasKey) ==
  /\ transport = "mcp"
  /\ req' = [tool |-> "retrieve_memory_state", key |-> hasKey]
  /\ IF ~HasModel \/ ~HasVar
       THEN /\ resp' = Refused("retrieve_memory_state", NotInitialized)
            /\ UNCHANGED memoryVec
     ELSE IF ~hasKey
       THEN /\ resp' = Refused("retrieve_memory_state", "Missing key")
            /\ UNCHANGED memoryVec
     ELSE
       LET assigned == AssignMemory(memoryVec, Tensor1d(<<>>))
       IN IF IsErr(assigned)
            THEN /\ resp' = Caught("retrieve_memory_state", assigned.err)
                 /\ UNCHANGED memoryVec
          ELSE /\ resp' = Okay("retrieve_memory_state",
                               [message |-> "Memory state retrieved"])
               /\ memoryVec' = assigned
  /\ UNCHANGED <<transport, saving, model, files>>

\* The tool names explored that index.ts has no case for ('train' is the
\* one tool of build/index.js).
UnknownNames == {"unknown_tool", "train"}

\* A variant of UnknownTool that reaches the catch block.
UnknownToolCaught(name) ==
  /\ transport = "mcp"
  /\ name \in UnknownNames
  /\ req' = [tool |-> name]
  /\ resp' = Caught(name, "Unknown tool: " \o name)
  /\ UNCHANGED <<transport, saving, model, memoryVec, files>>

\* any other tool name (MCP only): the default case of the switch
UnknownTool(name) ==
  /\ transport = "mcp"
  /\ name \in UnknownNames
  /\ req' = [tool |-> name]
  /\ resp' = [tool |-> name, ok |-> FALSE, status |-> 0,
              code |-> "MethodNotFound", error |-> "Unknown tool: " \o name,
              details |-> "", body |-> <<>>]
  /\ UNCHANGED <<transport, saving, model, memoryVec, files>>

Next ==
  \/ \E config \in SessionRequests, seed \in Seeds : InitModel(config, seed)
  \/ \E x \in Vectors, use \in UseOutcomes : ForwardPass(x, use)
  \/ \E pair \in TrainPairs, use \in UseOutcomes :
       TrainStep(pair[1], pair[2], use)
  \/ \E tool \in {"train_step", "forward_pass"} : MissingVector(tool)
  \/ \E p \in Paths : SaveModel(p)
  \/ \E p \in Paths : LoadModel(p)
  \/ \E tool \in {"save_model", "load_model"} : MissingPath(tool)
  \/ GetStatus
  \/ \E sequence \in Sequences, use \in UseOutcomes, reuse \in {"throws", "reads"} :
       TrainSequence(sequence, use, reuse)
  \/ MissingSequence
  \/ \E hasKey \in BOOLEAN : StoreMemoryState(hasKey)
  \/ \E hasKey \in BOOLEAN : RetrieveMemoryState(hasKey)
  \/ \E name \in UnknownNames : UnknownTool(name)

Spec == Init /\ [][Next]_vars

\* The configs explored by the direct calls: the init requests that give
\* every dimension and count as a positive number.
Positive(config) ==
  \A f \in {"inputDim", "hiddenDim", "outputDim", "numHeads", "numLayers"} :
    f \in DOMAIN config /\ config[f] >= 1
CoreRequests == {config \in InitRequests : Positive(config)}

\* The result of a direct call.
Returned(call, body) ==
  [tool |-> call, ok |-> TRUE, status |-> 0, code |-> "", error |-> "",
   details |-> "", body |-> body]
Thrown(call, msg) ==
  [tool |-> call, ok |-> FALSE, status |-> 0, code |-> "", error |-> msg,
   details |-> "", body |-> <<>>]

\* A variant of CallForward in which the call also sets the forget gate to
\* zero.
CallForwardClearingGate(x, memory) ==
  /\ HasModel
  /\ req' = [tool |-> "forward", x |-> x, memory |-> memory]
  /\ LET Result(f) ==
           /\ model' = [model EXCEPT !.hierarchicalMemory = f.hier,
                                     !.forgetGate = Scalar(0)]
           /\ resp' = IF f.threw THEN Thrown("forward", f.error)
                      ELSE Returned("forward",
                                    [predicted |-> f.predicted, newMemory |-> f.newMemory,
                                     surprise |-> f.surprise])
     IN Result(forward(model, Tensor1d(x), Tensor1d(memory)))
  /\ UNCHANGED <<transport, saving, memoryVec, files>>

\* model.forward(wrapTensor(x), wrapTensor(memory)) called directly
CallForward(x, memory) ==
  /\ HasModel
  /\ req' = [tool |-> "forward", x |-> x, memory |-> memory]
  /\ LET Result(f) ==
           /\ model' = [model EXCEPT !.hierarchicalMemory = f.hier]
           /\ resp' = IF f.threw THEN Thrown("forward", f.error)
                      ELSE Returned("forward",
                                    [predicted |-> f.predicted, newMemory |-> f.newMemory,
                                     surprise |-> f.surprise])
     IN Result(forward(model, Tensor1d(x), Tensor1d(memory)))
  /\ UNCHANGED <<transport, saving, memoryVec, files>>

\* model.trainStep(x_t, x_next, memory) called directly, memory a plain
\* tensor
CallTrainStep(x_t, x_next, memory) ==
  /\ HasModel
  /\ req' = [tool |-> "trainStep", x_t |-> x_t, x_next |-> x_next,
             memory |-> memory]
  /\ LET Result(t) ==
           /\ model' = t.model
           /\ resp' = IF t.threw THEN Thrown("trainStep", t.error)
                      ELSE Returned("trainStep", [cost |-> t.cost])
     IN Result(trainStep(model, Tensor1d(x_t), Tensor1d(x_next), Tensor1d(memory), FALSE))
  /\ UNCHANGED <<transport, saving, memoryVec, files>>

\* The number of steps at each end of a training run whose costs the unit
\* tests average.
WindowLen == 5

\* The learning rates of the unit test 'trains with different learning
\* rates': 1e-4, 1e-3, 1e-2.
LearningRates == {CfgUnit \div 10000, CfgUnit \div 1000, CfgUnit \div 100}

RECURSIVE TrainingCosts(_, _, _, _)
\* The costs collected by a loop of n trainStep(x, x, memory) calls on the
\* same tensors; the loop ends at the first call that throws.
TrainingCosts(m, x, memory, n) ==
  IF n = 0 THEN <<>>
  ELSE
    LET Collected(t) ==
          IF t.threw THEN <<>>
          ELSE <<t.cost.data[1]>> \o TrainingCosts(t.model, x, memory, n - 1)
    IN Collected(trainStep(m, x, x, memory, FALSE))

\* The model's own operations called directly and through forward_pass and
\* train_step, over every config of CoreRequests.
NextCore ==
  \/ \E config \in CoreRequests, seed \in Seeds : InitModel(config, seed)
  \/ \E x \in Vectors, use \in UseOutcomes : ForwardPass(x, use)
  \/ \E pair \in TrainPairs, use \in UseOutcomes :
       TrainStep(pair[1], pair[2], use)
  \/ \E x \in Vectors, memory \in Vectors : CallForward(x, memory)
  \/ \E x_t \in Vectors, x_next \in Vectors, memory \in Vectors :
       CallTrainStep(x_t, x_next, memory)

SpecCore == Init /\ [][NextCore]_vars

\* The persistence requests alone, over every init request of InitRequests.
NextPersist ==
  \/ \E config \in InitRequests, seed \in Seeds : InitModel(config, seed)
  \/ \E p \in Paths : SaveModel(p)
  \/ \E p \in Paths : LoadModel(p)
  \/ GetStatus

SpecPersist == Init /\ [][NextPersist]_vars

\* The configs explored by manifoldStep: the base config with useManifold
\* given or left out, the default maxStepSize (0.1) or 0.5, the default
\* tangentEpsilon (1e-8) or 0.1.
ManifoldRequests ==
  {[BaseConfig EXCEPT !.numHeads = 1] @@ extra :
     extra \in
       {u @@ s @@ e :
          u \in {<<>>, [useManifold |-> TRUE]},
          s \in {<<>>, [maxStepSize |-> CfgUnit \div 2]},
          e \in {<<>>, [tangentEpsilon |-> CfgUnit \div 10]}}}

\* The base and velocity vectors explored: unit vectors along an axis and
\* off the axes, a vector of norm 2, the zero vector, short and long
\* vectors, and one vector of another length.
ManifoldVectors ==
  {<<One, 0>>, <<0, One>>, <<(6 * One) \div 10, (8 * One) \div 10>>,
   <<2 * One, 0>>, <<0, 0>>, <<0, One \div 20>>, <<0, 3 * One>>,
   <<(3 * One) \div 10, 0 - (4 * One) \div 10>>, <<One>>}

\* model.manifoldStep(wrapTensor(base), wrapTensor(velocity)) called directly
CallManifoldStep(base, velocity) ==
  /\ HasModel
  /\ req' = [tool |-> "manifoldStep", base |-> base, velocity |-> velocity]
  /\ LET Result(r) ==
           resp' = IF IsErr(r) THEN Thrown("manifoldStep", r.err)
                   ELSE Returned("manifoldStep", r)
     IN Result(manifoldStep(model, Tensor1d(base), Tensor1d(velocity)))
  /\ UNCHANGED <<transport, saving, model, memoryVec, files>>

\* manifoldStep called directly on models of every config of
\* ManifoldRequests.
NextManifold ==
  \/ \E config \in ManifoldRequests, seed \in Seeds : InitModel(config, seed)
  \/ \E base \in ManifoldVectors, velocity \in ManifoldVectors :
       CallManifoldStep(base, velocity)

SpecManifold == Init /\ [][NextManifold]_vars

\* The configs explored for getConfig: the base config, the base config
\* with each field left out in turn, another memory dimension, and every
\* fractional field and useManifold given.
ConfigRequests ==
  {BaseConfig, [BaseConfig EXCEPT !.outputDim = 1]}
  \cup {Without(BaseConfig, f) : f \in DOMAIN BaseConfig}
  \cup {BaseConfig @@
          [learningRate |-> CfgUnit \div 100, useManifold |-> TRUE,
           momentumFactor |-> CfgUnit \div 2, forgetGateInit |-> CfgUnit \div 10,
           maxStepSize |-> CfgUnit \div 2, tangentEpsilon |-> CfgUnit \div 10]}

\* Construction followed by every operation of the model, over the configs
\* of ConfigRequests (one outcome of the random initialiser, one path).
NextConfig ==
  \/ \E config \in ConfigRequests : InitModel(config, 1)
  \/ CallForward(Vec(MaxDim), Vec(MaxDim))
  \/ CallTrainStep(Vec(MaxDim), Vec(MaxDim), Vec(MaxDim))
  \/ \E velocity \in {<<0, 0>>, <<0, One>>} : CallManifoldStep(<<One, 0>>, velocity)
  \/ \E p \in {q \in Paths : ~q.scheme} : SaveModel(p)
  \/ \E p \in {q \in Paths : ~q.scheme} : LoadModel(p)
  \/ GetStatus

SpecConfig == Init /\ [][NextConfig]_vars

\* The configs of the models whose parameters are followed: BaseConfig and
\* BaseConfig with MaxCount heads.
FrameRequests == {BaseConfig, [BaseConfig EXCEPT !.numHeads = MaxCount]}

\* forward, trainStep, saveModel and loadModel on models of FrameRequests
\* built under each outcome of the random initialiser.
NextFrame ==
  \/ \E config \in FrameRequests, seed \in Seeds : InitModel(config, seed)
  \/ \E x \in {Vec(1), Vec(MaxDim)} : CallForward(x, Vec(MaxDim))
  \/ \E x \in {Vec(1), Vec(MaxDim)} : CallTrainStep(x, Vec(MaxDim), Vec(MaxDim))
  \/ \E p \in {q \in Paths : ~q.scheme} : SaveModel(p)
  \/ \E p \in {q \in Paths : ~q.scheme} : LoadModel(p)

SpecFrame == Init /\ [][NextFrame]_vars

\* The parameter sets the models of SpecAsync are constructed with, one for
\* each outcome of the random initialiser.
ParameterSets == {saveModel(NewModel(BaseConfig, seed)) : seed \in Seeds}

\* save_model / POST /save on an initialized session, up to the first await
\* of saveModel: the call reads W1.  One saveModel call in progress at a
\* time is explored.
BeginSave(p) ==
  /\ HasModel
  /\ saving = {}
  /\ req' = [tool |-> "save_model", path |-> p]
  /\ saving' = saving \cup
       {[path |-> p, detached |-> FALSE, own |-> NoModel,
         weights |-> [g \in {SaveGroups[1]} |-> getWeights(model)[g]]]}
  /\ UNCHANGED <<transport, model, memoryVec, files, resp>>

\* A variant of ReadNext that reads the group from this.model even after
\* init has replaced it.
ReadNextFromSession(s) ==
  /\ s \in saving
  /\ Cardinality(DOMAIN s.weights) < Len(SaveGroups)
  /\ LET Read(g) ==
           saving' = (saving \ {s}) \cup
             {[s EXCEPT !.weights =
                 [h \in (DOMAIN s.weights) \cup {g} |->
                    IF h = g THEN getWeights(model)[g] ELSE s.weights[h]]]}
     IN Read(SaveGroups[Cardinality(DOMAIN s.weights) + 1])
  /\ UNCHANGED <<transport, model, memoryVec, files, req, resp>>

\* saveModel resumes after an await and reads the next parameter group.
ReadNext(s) ==
  /\ s \in saving
  /\ Cardinality(DOMAIN s.weights) < Len(SaveGroups)
  /\ LET Read(g) ==
           saving' = (saving \ {s}) \cup
             {[s EXCEPT !.weights =
                 [h \in (DOMAIN s.weights) \cup {g} |->
                    IF h = g THEN getWeights(Source(s))[g] ELSE s.weights[h]]]}
     IN Read(SaveGroups[Cardinality(DOMAIN s.weights) + 1])
  /\ UNCHANGED <<transport, model, memoryVec, files, req, resp>>

\* saveModel has read every group: the record is written and the request
\* answered.
WriteFile(s) ==
  /\ s \in saving
  /\ Cardinality(DOMAIN s.weights) = Len(SaveGroups)
  /\ files' = [files EXCEPT ![PathFile(s.path)] = s.weights]
  /\ saving' = saving \ {s}
  /\ req' = [tool |-> "save_model", path |-> s.path]
  /\ resp' = Okay("save_model", [message |-> "Model saved"])
  /\ UNCHANGED <<transport, model, memoryVec>>

\* The server with saveModel step by step: the other requests are served
\* between the awaits of a save in progress.  The records loaded are those
\* that hold one of ParameterSets.
NextAsync ==
  \/ \E seed \in Seeds : InitModel(BaseConfig, seed)
  \/ \E use \in UseOutcomes : ForwardPass(Vec(MaxDim), use)
  \/ \E use \in UseOutcomes : TrainStep(Vec(MaxDim), Vec(MaxDim), use)
  \/ \E p \in {q \in Paths : ~q.scheme} : BeginSave(p)
  \/ \E s \in saving : ReadNext(s)
  \/ \E s \in saving : WriteFile(s)
  \/ \E p \in {q \in Paths : ~q.scheme /\ files[PathFile(q)] \in ParameterSets} :
       LoadModel(p)

SpecAsync == Init /\ [][NextAsync]_vars


\* ----------------------------------------------------------- properties
\* The session's model has a config the specification calls valid.
ValidModel ==
  /\ HasModel
  /\ model.cfg.inputDim > 0 /\ model.cfg.hiddenDim > 0 /\ model.cfg.memoryDim > 0
  /\ model.cfg.numHeads >= 1 /\ model.cfg.numLayers >= 1

\* The last request was a forward_pass or train_step whose vectors have the
\* model's inputDim.
SizedRequest ==
  \/ /\ req.tool = "forward_pass" /\ "x" \in DOMAIN req
     /\ Len(req.x) = model.cfg.inputDim
  \/ /\ req.tool = "train_step" /\ "x_t" \in DOMAIN req
     /\ Len(req.x_t) = model.cfg.inputDim
     /\ Len(req.x_next) = model.cfg.inputDim

\* The last request was a forward_pass or train_step with a vector of
\* another length than the model's inputDim.
WrongRequest ==
  \/ /\ req.tool = "forward_pass" /\ "x" \in DOMAIN req
     /\ Len(req.x) # model.cfg.inputDim
  \/ /\ req.tool = "train_step" /\ "x_t" \in DOMAIN req
     /\ (Len(req.x_t) # model.cfg.inputDim \/ Len(req.x_next) # model.cfg.inputDim)

\* The last operation was a direct forward call with x of length inputDim
\* and memory of length memoryDim.
SizedCall ==
  /\ req.tool = "forward"
  /\ Len(req.x) = model.cfg.inputDim
  /\ Len(req.memory) = model.cfg.memoryDim

\* The last operation was a direct forward or trainStep call with a vector
\* of the wrong length.
WrongCall ==
  \/ /\ req.tool = "forward"
     /\ (Len(req.x) # model.cfg.inputDim \/ Len(req.memory) # model.cfg.memoryDim)
  \/ /\ req.tool = "trainStep"
     /\ \/ Len(req.x_t) # model.cfg.inputDim
        \/ Len(req.x_next) # model.cfg.inputDim
        \/ Len(req.memory) # model.cfg.memoryDim

\* C1: between an init request and the next one, every forward_pass or
\* train_step request that carries correctly sized vectors succeeds, however
\* many such requests were served before.
C1_SizedRequestsSucceed ==
  (ValidModel /\ HasVar /\ SizedRequest) => resp.ok

\* C2: for a valid config, x of length inputDim and memory of length
\* memoryDim, forward returns predicted of length inputDim, newMemory of
\* length memoryDim and a scalar surprise >= 0.
C2_ForwardShapes ==
  (ValidModel /\ SizedCall) =>
    /\ resp.ok
    /\ Len(resp.body.predicted.data) = model.cfg.inputDim
    /\ Len(resp.body.newMemory.data) = model.cfg.memoryDim
    /\ resp.body.surprise.shape = <<>>
    /\ resp.body.surprise.data[1] >= 0

\* The numbers of rows and columns of a nested array.
Dim2(a) == <<Len(a), IF a = <<>> THEN 0 ELSE Len(a[1])>>

\* The shapes of the ten parameter groups of a saved record.
Form(w) ==
  [W1 |-> Dim2(w.W1), b1 |-> Len(w.b1), W2 |-> Dim2(w.W2), b2 |-> Len(w.b2),
   queryWeights |-> [i \in 1..Len(w.queryWeights) |-> Dim2(w.queryWeights[i])],
   keyWeights |-> [i \in 1..Len(w.keyWeights) |-> Dim2(w.keyWeights[i])],
   valueWeights |-> [i \in 1..Len(w.valueWeights) |-> Dim2(w.valueWeights[i])],
   attentionOutputWeights |->
     [i \in 1..Len(w.attentionOutputWeights) |-> Dim2(w.attentionOutputWeights[i])],
   hierarchicalMemory |->
     [i \in 1..Len(w.hierarchicalMemory) |-> Len(w.hierarchicalMemory[i])]]

\* The shapes are those of a record saved by a model of valid config.
ValidForm(w) ==
  /\ Len(w.queryWeights) >= 1 /\ Len(w.hierarchicalMemory) >= 1
  /\ Dim2(w.queryWeights[1])[1] >= 1
  /\ Dim2(w.W1)[1] >= 1
  /\ Dim2(w.W1)[2] > Dim2(w.queryWeights[1])[1]

\* The record the last load_model request named.
LoadedFile == files[PathFile(req.path)]

\* The last request was a load_model that found a model and its file.
LoadRequest ==
  /\ req.tool = "load_model" /\ "path" \in DOMAIN req
  /\ HasModel
  /\ LoadedFile # NoFile

\* C3: loading a record saved by a model of identical config (the same
\* shapes in all ten groups) succeeds and makes getWeights() of the loading
\* model equal to the saved record, whatever forward_pass and train_step
\* requests the saving model served before the save.
C3_SaveLoadRoundTrip ==
  (LoadRequest /\ ValidModel /\ Form(LoadedFile) = Form(getWeights(model))) =>
    /\ resp.ok
    /\ getWeights(model) = LoadedFile

\* A load_model of a same-shaped record into a valid model succeeded.
C3_Loaded ==
  /\ LoadRequest /\ ValidModel /\ resp.ok
  /\ Form(LoadedFile) = Form(getWeights(model))
  /\ getWeights(model) = LoadedFile

\* The model with its attention matrices and hierarchical layers removed.
CoreOnly(m) ==
  [m EXCEPT !.queryWeights = <<>>, !.keyWeights = <<>>, !.valueWeights = <<>>,
            !.attentionOutputWeights = <<>>, !.hierarchicalMemory = <<>>]

\* C4: what forward returns is a function of x, memory, W1, b1, W2, b2 and
\* forgetGate only: a correctly sized forward call returns the predicted,
\* newMemory and surprise these determine, whatever the attention matrices
\* and hierarchical layers hold.
C4_ForwardReadsCoreOnly ==
  (ValidModel /\ SizedCall) =>
    /\ resp.ok
    /\ resp.body.predicted =
         ForwardCore(CoreOnly(model), Tensor1d(req.x), Tensor1d(req.memory)).predicted
    /\ resp.body.newMemory =
         ForwardCore(CoreOnly(model), Tensor1d(req.x), Tensor1d(req.memory)).newMemory
    /\ resp.body.surprise =
         ForwardCore(CoreOnly(model), Tensor1d(req.x), Tensor1d(req.memory)).surprise

\* C5: a forward_pass or train_step request with correctly sized vectors
\* succeeds and leaves the newMemory of its forward call in the session
\* memory vector, live as the memory input of the next request.
C5_MemoryPersisted ==
  (ValidModel /\ HasVar /\ SizedRequest) =>
    /\ resp.ok
    /\ ~memoryVec.disposed
    /\ req.tool = "forward_pass" => memoryVec.data = resp.body.memory

\* What the session holds after an init request: the model constructed from
\* the request (and this construction's random draw) alone, a config that
\* reflects the request, and a live zero-filled memory vector of length
\* memoryDim.
InitResult ==
  /\ HasModel
  /\ model = NewModel(req.config, req.seed)
  /\ \A f \in DOMAIN req.config :
       req.config[f] # 0 => getConfig(model)[f] = req.config[f]
  /\ HasVar
  /\ ~memoryVec.disposed
  /\ memoryVec.shape = <<model.cfg.memoryDim>>
  /\ \A k \in 1..Len(memoryVec.data) : memoryVec.data[k] = 0

C7_LoadRejectsMismatch ==
  (LoadRequest /\ ValidModel /\ ValidForm(LoadedFile)
     /\ Form(LoadedFile) # Form(getWeights(model))) => ~resp.ok

\* C8: forward and trainStep reject every call in which x, x_t or x_next has
\* another length than inputDim or memory another length than memoryDim,
\* and forward_pass and train_step answer such a request with an error (an
\* HTTP 500 with an error field) instead of a result.
C8_WrongLengthsRejected ==
  /\ (HasModel /\ WrongCall) => (~resp.ok /\ resp.error # "")
  /\ (HasModel /\ HasVar /\ WrongRequest) =>
       /\ ~resp.ok
       /\ resp.error # ""
       /\ transport = "http" => resp.status = 500

\* A forward call was rejected whose x is one longer and whose memory is one
\* shorter than configured, so that their total length is the expected one.
C8_RejectedSwappedLengths ==
  /\ HasModel /\ req.tool = "forward"
  /\ Len(req.x) = model.cfg.inputDim + 1
  /\ Len(req.memory) = model.cfg.memoryDim - 1
  /\ ~resp.ok

\* The init request gives a dimension or count that is not positive.
NonPositive(config) ==
  \E f \in {"inputDim", "hiddenDim", "outputDim", "numHeads", "numLayers"} :
    f \in DOMAIN config /\ config[f] <= 0

\* C9: an init request with a non-positive inputDim, hiddenDim, outputDim,
\* numHeads or numLayers fails, so every model that exists has memoryDim > 0,
\* inputDim > 0, numHeads >= 1 and numLayers >= 1.
C9_InvalidConfigRejected ==
  /\ (req.tool = "init_model" /\ NonPositive(req.config)) => ~resp.ok
  /\ HasModel =>
       /\ model.cfg.memoryDim > 0 /\ model.cfg.inputDim > 0
       /\ model.cfg.numHeads >= 1 /\ model.cfg.numLayers >= 1

\* The tools that need a model.
GuardedTools ==
  {"train_step", "forward_pass", "train_sequence", "save_model", "load_model",
   "store_memory_state", "retrieve_memory_state"}

\* C10: while no model was initialized, every tool that needs one answers
\* with a 'Model not initialized' error (a 400 over HTTP) and the session
\* stays without model and memory; get_status answers with the no-model
\* status, not an error.
C10_NotInitialized ==
  ~HasModel =>
    /\ model = NoModel
    /\ memoryVec = NoVar
    /\ req.tool \in GuardedTools =>
         /\ ~resp.ok
         /\ resp.error = NotInitialized
         /\ transport = "http" => resp.status = 400
         /\ transport = "mcp" => resp.code = "InternalError"
    /\ req.tool = "get_status" =>
         /\ resp.ok
         /\ resp.body = [status |-> IF transport = "http" THEN "No model"
                                    ELSE "No model initialized"]

\* retrieve_memory_state was refused for want of a model.
C10_RefusedRetrieve ==
  /\ ~HasModel
  /\ req.tool = "retrieve_memory_state"
  /\ resp.error = NotInitialized

C12_MissingFileLoadFails ==
  [][(/\ req'.tool = "load_model" /\ "path" \in DOMAIN req'
      /\ HasModel
      /\ files[PathFile(req'.path)] = NoFile) =>
       /\ ~resp'.ok
       /\ NoSuchFile \in {resp'.error, resp'.details}
       /\ model' = model]_vars

\* A load_model of a missing file failed in a session that holds a model.
C12_MissingFileRefused ==
  /\ req.tool = "load_model" /\ "path" \in DOMAIN req
  /\ HasModel
  /\ files[PathFile(req.path)] = NoFile
  /\ ~resp.ok
  /\ NoSuchFile \in {resp.error, resp.details}

\* The last operation was a direct manifoldStep call with base and velocity
\* of equal length.
ManifoldCall ==
  /\ req.tool = "manifoldStep"
  /\ Len(req.base) = Len(req.velocity)

\* The Euclidean norm and the inner product of vectors, in fixed-point
\* units.
NormOf(v) == IntSqrt(SumSeq([k \in 1..Len(v) |-> v[k] * v[k]]))
Dot(u, v) == SumSeq([k \in 1..Len(u) |-> u[k] * v[k]]) \div One
UnitNorm(v) == SumSeq([k \in 1..Len(v) |-> v[k] * v[k]]) = One * One

\* The norm of a result counts as 1 when it is within this many fixed-point
\* units of One: the rounding of the fixed-point operations.
NormTolerance == One \div 500

WithinTolerance(a, b) == a - b <= NormTolerance /\ b - a <= NormTolerance

\* The norm of the component of velocity tangent to base.
TangentNorm(base, velocity) ==
  NormOf(Sub(Tensor1d(velocity),
             Mul(Tensor1d(base), Sum(Mul(Tensor1d(base), Tensor1d(velocity))))).data)

\* C16: with useManifold false, manifoldStep(base, velocity) returns exactly
\* base + velocity, element by element, for base and velocity of equal
\* length, and changes no parameter of the model.
C16_EuclideanStep ==
  [][(/\ req'.tool = "manifoldStep"
      /\ Len(req'.base) = Len(req'.velocity)
      /\ ~model.cfg.useManifold) =>
       /\ resp'.ok
       /\ resp'.body.data =
            [k \in 1..Len(req'.base) |-> req'.base[k] + req'.velocity[k]]
       /\ model' = model]_vars

\* With useManifold false a base and a velocity that is not zero were added.
C16_Added ==
  /\ ManifoldCall /\ ~model.cfg.useManifold /\ resp.ok
  /\ \E k \in 1..Len(req.velocity) : req.velocity[k] # 0
  /\ resp.body.data # req.base

C18_StepClamped ==
  (ManifoldCall /\ model.cfg.useManifold /\ UnitNorm(req.base)) =>
    /\ resp.ok
    /\ Dot(req.base, resp.body.data)
         >= Cos(ToFixed(model.cfg.maxStepSize)) - NormTolerance
    /\ TangentNorm(req.base, req.velocity) <= ToFixed(model.cfg.maxStepSize) =>
         Dot(req.base, resp.body.data)
           >= Cos(TangentNorm(req.base, req.velocity)) - NormTolerance

\* A velocity whose tangent norm is above maxStepSize moved a unit-norm
\* base by maxStepSize.
C18_ClampedLargeVelocity ==
  /\ ManifoldCall /\ model.cfg.useManifold /\ UnitNorm(req.base)
  /\ TangentNorm(req.base, req.velocity) > ToFixed(model.cfg.maxStepSize)
  /\ resp.ok
  /\ WithinTolerance(Dot(req.base, resp.body.data),
                     Cos(ToFixed(model.cfg.maxStepSize)))

\* The tangent norm of the last call, in fixed-point units, is below the
\* model's tangentEpsilon, in units of 1/CfgUnit.
BelowEpsilon ==
  TangentNorm(req.base, req.velocity)
    <= (model.cfg.tangentEpsilon - 1) \div (CfgUnit \div One)

\* C19: with useManifold enabled, when the component of velocity tangent to
\* base has a norm below tangentEpsilon (zero velocity in particular),
\* manifoldStep returns base unchanged, without normalising it.
C19_NegligibleReturnsBase ==
  (/\ ManifoldCall /\ model.cfg.useManifold
   /\ BelowEpsilon) =>
    /\ resp.ok
    /\ resp.body.data = req.base

\* A base of norm 2 came back unchanged from a velocity that is not zero.
C19_ReturnedLongBase ==
  /\ ManifoldCall /\ model.cfg.useManifold
  /\ NormOf(req.base) = 2 * One
  /\ \E k \in 1..Len(req.velocity) : req.velocity[k] # 0
  /\ BelowEpsilon
  /\ resp.ok
  /\ resp.body.data = req.base

\* The defaults the claim lists, fractional values in units of 1/CfgUnit.
ListedDefaults ==
  [inputDim |-> 64, hiddenDim |-> 32, outputDim |-> 64,
   learningRate |-> CfgUnit \div 1000, useManifold |-> FALSE,
   momentumFactor |-> 9 * (CfgUnit \div 10), forgetGateInit |-> CfgUnit \div 100,
   maxStepSize |-> CfgUnit \div 10, tangentEpsilon |-> CfgUnit \div CfgUnit,
   numHeads |-> 4, numLayers |-> 3]

\* A config record answers a config request: every field that was left out
\* has its default, useManifold is as supplied, and every field supplied as
\* a positive number has the value supplied.
Answers(record, config) ==
  /\ DOMAIN record = DOMAIN ListedDefaults
  /\ \A f \in DOMAIN ListedDefaults :
       IF f \notin DOMAIN config THEN record[f] = ListedDefaults[f]
       ELSE IF f = "useManifold" THEN record[f] = config[f]
       ELSE config[f] > 0 => record[f] = config[f]

\* C13: getConfig returns, field by field, the positive value supplied at
\* construction or the listed default where the field was left out, with
\* memoryDim under the name outputDim, and the same record after every
\* forward, trainStep, manifoldStep, saveModel and loadModel call, a
\* loadModel of a record saved under another config included.
C13_ConfigFixed ==
  [][/\ (req'.tool = "init_model" /\ resp'.ok) =>
          /\ Answers(getConfig(model'), req'.config)
          /\ getConfig(model').outputDim = model'.cfg.memoryDim
     /\ (req'.tool # "init_model" /\ HasModel) =>
          /\ "cfg" \in DOMAIN model'
          /\ getConfig(model') = getConfig(model)
     /\ (req'.tool = "get_status" /\ HasModel) =>
          resp'.body = getConfig(model)]_vars

\* A record saved under another config was loaded, at least in part, and
\* the config is the one of the construction with a field left out.
C13_LoadedForeignRecord ==
  /\ req.tool = "load_model" /\ "path" \in DOMAIN req
  /\ HasModel
  /\ LoadedFile # NoFile
  /\ Form(LoadedFile) # Form(getWeights(model))
  /\ getWeights(model).forgetGate = LoadedFile.forgetGate
  /\ getConfig(model).numLayers = 3
  /\ getConfig(model).forgetGateInit = CfgUnit \div 100
  /\ LoadedFile.forgetGate = One \div 10

\* C14: the optimizer update of trainStep is applied and changes only W1,
\* b1, W2, b2 and forgetGate: on a train_step request with correctly sized
\* vectors trainStep returns its cost and the session memory variable it
\* was given holds the same values after the call as before it.
C14_TrainStepKeepsMemory ==
  [][(/\ req'.tool = "train_step" /\ "x_t" \in DOMAIN req'
      /\ ValidModel /\ HasVar /\ ~memoryVec.disposed
      /\ Len(req'.x_t) = model.cfg.inputDim
      /\ Len(req'.x_next) = model.cfg.inputDim) =>
       /\ ~trainStepVar(model, Tensor1d(req'.x_t), Tensor1d(req'.x_next),
                        memoryVec, "live").threw
       /\ trainStepVar(model, Tensor1d(req'.x_t), Tensor1d(req'.x_next),
                       memoryVec, "live").memory = AsTensor(memoryVec)]_vars

\* The four lists of attention matrices of a model.
Attention(m) ==
  [queryWeights |-> m.queryWeights, keyWeights |-> m.keyWeights,
   valueWeights |-> m.valueWeights,
   attentionOutputWeights |-> m.attentionOutputWeights]

\* C15: forward changes no parameter except the hierarchical layers,
\* trainStep never changes an attention matrix, and the attention matrices
\* of a session change only through loadModel (or with the model itself,
\* at init).
C15_ForwardAndTrainFrame ==
  [][/\ req'.tool = "forward" =>
          [model' EXCEPT !.hierarchicalMemory = <<>>]
            = [model EXCEPT !.hierarchicalMemory = <<>>]
     /\ req'.tool = "trainStep" => Attention(model') = Attention(model)
     /\ (HasModel /\ Attention(model') # Attention(model)) =>
          req'.tool \in {"load_model", "init_model"}]_vars

\* A load_model replaced the first query matrix of a model of two heads by
\* the one of a record saved under another outcome of the initialiser (the
\* key matrices are still the model's own).
C15_QueryMatrixLoaded ==
  /\ req.tool = "load_model" /\ "path" \in DOMAIN req
  /\ HasModel /\ Len(model.queryWeights) = MaxCount
  /\ LoadedFile # NoFile
  /\ ToArray(model.queryWeights[1]) = LoadedFile.queryWeights[1]
  /\ ToArray(model.keyWeights[1]) # LoadedFile.keyWeights[1]

\* C20: train_sequence on n >= 1 vectors of length inputDim performs n
\* training steps and returns n metric entries numbered 0..n-1 and an
\* output of shape [n, inputDim].
C20_SequenceTrained ==
  (/\ req.tool = "train_sequence" /\ "sequence" \in DOMAIN req
   /\ ValidModel /\ HasVar
   /\ Len(req.sequence) >= 1
   /\ \A t \in 1..Len(req.sequence) : Len(req.sequence[t]) = model.cfg.inputDim) =>
    /\ resp.ok
    /\ Len(resp.body.metrics) = Len(req.sequence)
    /\ \A t \in 1..Len(req.sequence) : resp.body.metrics[t].step = t - 1
    /\ resp.body.shape = <<Len(req.sequence), model.cfg.inputDim>>

\* C21: after init a store_memory_state with a key succeeds with 'Memory
\* state stored', and a retrieve_memory_state with that key right after it
\* succeeds with 'Memory state retrieved' and sets the session memory to
\* the state stored, a vector of length memoryDim.
C21_StoredStateRetrieved ==
  [][(/\ req.tool = "store_memory_state" /\ resp.ok
      /\ resp.body.message = "Memory state stored"
      /\ req'.tool = "retrieve_memory_state" /\ req'.key) =>
       /\ resp'.ok
       /\ resp'.body.message = "Memory state retrieved"
       /\ memoryVec'.data = memoryVec.data
       /\ Len(memoryVec'.data) = model.cfg.memoryDim]_vars

\* C22: on a new model, for each of the learning rates 1e-4, 1e-3 and 1e-2,
\* a run of trainStep calls with x_next equal to x_t on a fixed memory
\* vector gives every call its cost, and the costs of the last WindowLen
\* calls add up to less than those of the first WindowLen calls.
C22_LossDecreases ==
  (req.tool = "init_model" /\ ValidModel) =>
    \A lr \in LearningRates :
      LET Decreasing(costs) ==
            /\ Len(costs) = 2 * WindowLen
            /\ SumSeq(SubSeq(costs, WindowLen + 1, 2 * WindowLen))
                 < SumSeq(SubSeq(costs, 1, WindowLen))
      IN Decreasing(TrainingCosts([model EXCEPT !.cfg.learningRate = lr],
                                  Tensor1d(Vec(model.cfg.inputDim)),
                                  Zeros(<<model.cfg.memoryDim>>), 2 * WindowLen))

\* The attention output of forward(x, memory) on model m.
AttentionOutput(m, x, memory) ==
  multiHeadAttention(m, ForwardCore(m, x, memory).newMemory, memory, memory)

\* C23: a forward or trainStep call with correctly sized vectors adds the
\* attention output of forward to every hierarchical layer exactly once
\* (the layers are not reset, averaged or decayed).
C23_LayersAccumulate ==
  [][/\ (/\ req'.tool = "forward" /\ ValidModel
         /\ Len(req'.x) = model.cfg.inputDim
         /\ Len(req'.memory) = model.cfg.memoryDim) =>
          /\ ~IsErr(AttentionOutput(model, Tensor1d(req'.x), Tensor1d(req'.memory)))
          /\ \A i \in 1..Len(model.hierarchicalMemory) :
               model'.hierarchicalMemory[i]
                 = Add(model.hierarchicalMemory[i],
                       AttentionOutput(model, Tensor1d(req'.x), Tensor1d(req'.memory)))
     /\ (/\ req'.tool = "trainStep" /\ ValidModel
         /\ Len(req'.x_t) = model.cfg.inputDim
         /\ Len(req'.x_next) = model.cfg.inputDim
         /\ Len(req'.memory) = model.cfg.memoryDim) =>
          /\ ~IsErr(AttentionOutput(model, Tensor1d(req'.x_t), Tensor1d(req'.memory)))
          /\ \A i \in 1..Len(model.hierarchicalMemory) :
               model'.hierarchicalMemory[i]
                 = Add(model.hierarchicalMemory[i],
                       AttentionOutput(model, Tensor1d(req'.x_t), Tensor1d(req'.memory)))]_vars

\* C24: for every numHeads >= 1 and numLayers >= 1 the attention output of
\* a correctly sized forward call has length memoryDim, and
\* hierarchicalMemory is numLayers vectors of length memoryDim.
C24_AttentionOutputLength ==
  (SizedCall /\ ValidModel) =>
    /\ ~IsErr(AttentionOutput(model, Tensor1d(req.x), Tensor1d(req.memory)))
    /\ SizeOf(AttentionOutput(model, Tensor1d(req.x), Tensor1d(req.memory)).shape)
         = model.cfg.memoryDim
    /\ Len(model.hierarchicalMemory) = model.cfg.numLayers
    /\ \A i \in 1..Len(model.hierarchicalMemory) :
         model.hierarchicalMemory[i].shape = <<model.cfg.memoryDim>>

\* C25: a trainStep call with correctly sized vectors returns the cost
\* mean((predicted - x_next)^2) + 0.01 * surprise, predicted and surprise
\* those of forward(x_t, memory) under the parameters before the call; the
\* cost is not negative.
C25_CostIsLoss ==
  [][(/\ req'.tool = "trainStep" /\ ValidModel
      /\ Len(req'.x_t) = model.cfg.inputDim
      /\ Len(req'.x_next) = model.cfg.inputDim
      /\ Len(req'.memory) = model.cfg.memoryDim) =>
       /\ resp'.ok
       /\ resp'.body.cost
            = Add(Mean(Square(Sub(ForwardCore(model, Tensor1d(req'.x_t),
                                              Tensor1d(req'.memory)).predicted,
                                  Tensor1d(req'.x_next)))),
                  Mul(Scalar(One \div 100),
                      ForwardCore(model, Tensor1d(req'.x_t),
                                  Tensor1d(req'.memory)).surprise))
       /\ resp'.body.cost.data[1] >= 0]_vars

\* C26: a forward or trainStep call that fails with an error leaves every
\* parameter of the model, the hierarchical layers included, as it was
\* before the call.
C26_FailedCallChangesNothing ==
  [][(req'.tool \in {"forward", "trainStep"} /\ ~resp'.ok) => model' = model]_vars

\* A trainStep call whose x_t and memory have the model's lengths and whose
\* x_next has not (nor length 1) failed, and every layer is the zero
\* vector.
C26_FailedOnNextVector ==
  /\ req.tool = "trainStep" /\ ValidModel /\ ~resp.ok
  /\ Len(req.x_t) = model.cfg.inputDim
  /\ Len(req.memory) = model.cfg.memoryDim
  /\ Len(req.x_next) \notin {1, model.cfg.inputDim}
  /\ \A i \in 1..Len(model.hierarchicalMemory) :
       model.hierarchicalMemory[i] = Zeros(<<model.cfg.memoryDim>>)

\* C27: loadModel is all-or-nothing: a load_model that fails has
\* overwritten no parameter of the model.
C27_FailedLoadChangesNothing ==
  [][(/\ req'.tool = "load_model" /\ "path" \in DOMAIN req'
      /\ HasModel /\ ~resp'.ok) => model' = model]_vars

Consistent(s) ==
  \A g \in DOMAIN s.weights : s.weights[g] = getWeights(Source(s))[g]

C29_TwoForwardsPerRequest ==
  [][(/\ req'.tool = "train_step" /\ "x_t" \in DOMAIN req'
      /\ ValidModel /\ HasVar /\ ~memoryVec.disposed
      /\ Len(req'.x_t) = model.cfg.inputDim
      /\ Len(req'.x_next) = model.cfg.inputDim) =>
       LET Second(t, f) ==
             /\ ~f.threw
             /\ resp'.ok
             /\ resp'.body.cost = t.cost.data[1]
             /\ resp'.body.predicted = f.predicted.data
             /\ resp'.body.surprise = f.surprise.data[1]
             /\ memoryVec'.data = f.newMemory.data
             /\ model'.hierarchicalMemory = f.hier
           First(t) ==
             /\ ~t.threw
             /\ Second(t, forward(t.model, Tensor1d(req'.x_t), t.memory))
       IN First(trainStepVar(model, Tensor1d(req'.x_t), Tensor1d(req'.x_next),
                             memoryVec, "live"))]_vars

\* C30: in every state reached from construction by forward and trainStep
\* calls only, all hierarchical layers hold the same vector.
C30_LayersAlike ==
  HasModel =>
    \A i \in 1..Len(model.hierarchicalMemory), j \in 1..Len(model.hierarchicalMemory) :
      model.hierarchicalMemory[i] = model.hierarchicalMemory[j]

\* A forward or trainStep call with correctly sized vectors was made on a
\* model of two or more layers.
C30_CalledOnLayers ==
  /\ ValidModel /\ Len(model.hierarchicalMemory) >= 2
  /\ \/ SizedCall
     \/ /\ req.tool = "trainStep"
        /\ Len(req.x_t) = model.cfg.inputDim
        /\ Len(req.x_next) = model.cfg.inputDim
        /\ Len(req.memory) = model.cfg.memoryDim

=============================================================================
